---- MODULE Spec2Model ----
(***************************************************************************)
(* SmartTime backend: job queue (async_task_queue.py), task store and its  *)
(* caches (task_service.py), TTL caches (auth.py, deepseek_service.py),    *)
(* the scheduling recommender (deepseek_service.py) and the recurrence     *)
(* engine (task_service.py).                                               *)
(* Each component has its own specification over the shared variables;     *)
(* the variables of the other components keep their initial values.        *)
(***************************************************************************)
EXTENDS Integers, Sequences, FiniteSets, TLC

(***************************************************************************)
(* Bounds of the model (not program constants).                            *)
(***************************************************************************)
MaxJobs == 3
MaxWorkerTasks == 4
MaxInstances == 3
MaxExisting == 2
MaxTasks == 2
MaxTokens == 3
MaxPending == 2
\* MAX_CACHE_SIZE (1000) and the size that triggers the cleanup (100), scaled
MaxCacheSize == 2
CleanThreshold == 1
MaxItems == 2
MaxParts == 2

(***************************************************************************)
(* Program constants.                                                      *)
(***************************************************************************)
max_concurrent_tasks == 2
user_cache_ttl == 60
query_cache_ttl == 30
file_cache_ttl == 10
text_cache_ttl == 600
default_max_instances == 52
upcoming_days == 7
CACHE_TTL == 300
max_retries == 3
retry_delay == 1

NoTime == -1

VARIABLES
    \* ---- AsyncTaskQueue ----
    running,      \* self._running
    tasks,        \* self.tasks: job id -> AsyncTask fields
    putq,         \* scheduled asyncio.create_task(self.queue.put(task)), in order
    queue,        \* self.queue (asyncio.Queue, FIFO)
    running_tasks,\* self.running_tasks
    workers,      \* self.workers (the worker tasks stop() will cancel)
    wtask,        \* every worker coroutine ever created: position, job, cancel request
    stopPc,       \* position of a stop() call: "idle" or "gather"
    gathered,     \* the worker tasks the running stop() awaits
    hist,         \* history: the statuses assigned to each job, in order
    claimedBy,    \* history: the workers that took each job from the queue
    atStop,       \* history: jobs that were processing when the last stop() was called
    raisedIn,     \* history: worker -> jobs whose operation raised in that worker
    \* ---- TaskService._generate_recurring_tasks ----
    rPc,          \* "idle" (not called), "done" (returned)
    rParent,      \* parent_task
    rMax,         \* max_instances
    rOut,         \* the returned list recurring_tasks
    \* ---- DeepSeekService._fallback_schedule_analysis ----
    kPc,          \* "idle" (not called), "call", "done" (returned)
    kNow,         \* datetime.now() of the call
    kWork,        \* work_info
    kTasks,       \* existing_tasks
    kOut,         \* the returned list of time slots
    \* ---- TaskService (store and caches), DeepSeekService._cache ----
    now,          \* datetime.now()
    file,         \* the data file: the users with an entry, and their task lists
    fdc,          \* self._file_data_cache, self._file_cache_timestamp
    ucache,       \* self._cache, self._cache_timestamp (per user)
    qcache,       \* self._query_cache, self._query_cache_timestamp
    acache,       \* DeepSeekService._cache, _cache_timestamps
    nextTaskId,   \* the next fresh task id of _generate_task_id
    createdBy,    \* history: the user id each task id was created with
    saved,        \* history: how the last call of _save_data ended
    last,         \* history: how the last call ended
    \* ---- middleware/auth.py ----
    tNow,         \* time.time()
    token_cache,  \* token_cache, in the order of the dict: [key, val, ts]
    tPending,     \* the calls of verify_supabase_token that await the response
    tInserted,    \* history: the time each key was last written to token_cache
    \* ---- DeepSeekService.parse_tasks ----
    pPc,          \* "idle" (not called), "call", "done" (returned or raised)
    pText,        \* text, as what the fallback parser reads from it
    pCached,      \* the entry of self._cache for the text: "None" or a task list
    pResp,        \* what the extraction service answers
    pOut,         \* how the call ended: raised, the tasks returned, the entry left
    \* ---- AsyncTaskQueue.get_task_status ----
    jRet,         \* what the last call returned: <<task_id, dict or "None">>
    \* ---- DeepSeekService._make_api_request_with_retry ----
    xPc,          \* "idle", "request", "returned", "raised"
    xAttempt,     \* attempt of the for loop
    xReqs,        \* history: the answers of the requests made, in order
    xSleeps,      \* history: the delays slept, in order
    \* ---- a second TaskService on the same data file ----
    fdc2,         \* the file cache of the second TaskService: _file_data_cache, _file_cache_timestamp
    via2,         \* history: the ids of the tasks created through the second TaskService
    \* ---- the asynchronous parse endpoints (routes/tasks.py) ----
    jArgs         \* AsyncTask.args of the jobs of parse_tasks_async: the user_id of the request

qvars == <<running, tasks, putq, queue, running_tasks, workers, wtask, stopPc,
           gathered, hist, claimedBy, atStop, raisedIn>>

rvars == <<rPc, rParent, rMax, rOut>>

kvars == <<kPc, kNow, kWork, kTasks, kOut>>

svars == <<now, file, fdc, ucache, qcache, acache, nextTaskId, createdBy, saved, last>>

tvars == <<tNow, token_cache, tPending, tInserted>>

pvars == <<pPc, pText, pCached, pResp, pOut>>

jvars == <<jRet>>

xvars == <<xPc, xAttempt, xReqs, xSleeps>>

ivars == <<fdc2, via2>>

ovars == <<jArgs>>

vars == <<qvars, rvars, kvars, svars, tvars, pvars, jvars, xvars, ivars, ovars>>

\* the variables of the other components, for each component
nonq == <<rvars, kvars, svars, tvars, pvars, jvars, xvars, ivars, ovars>>
nonr == <<qvars, kvars, svars, tvars, pvars, jvars, xvars, ivars, ovars>>
nonk == <<qvars, rvars, svars, tvars, pvars, jvars, xvars, ivars, ovars>>
nons == <<qvars, rvars, kvars, tvars, pvars, jvars, xvars, ivars, ovars>>
nont == <<qvars, rvars, kvars, svars, pvars, jvars, xvars, ivars, ovars>>
nonp == <<qvars, rvars, kvars, svars, tvars, jvars, xvars, ivars, ovars>>
nonj == <<qvars, rvars, kvars, svars, tvars, pvars, xvars, ivars, ovars>>
nonx == <<qvars, rvars, kvars, svars, tvars, pvars, jvars, ivars, ovars>>
noni == <<qvars, rvars, kvars, svars, tvars, pvars, jvars, xvars, ovars>>
nono == <<qvars, rvars, kvars, svars, tvars, pvars, jvars, xvars, ivars>>

JobIds == 1..MaxJobs
WorkerIds == 1..MaxWorkerTasks

PENDING == "pending"
PROCESSING == "processing"
COMPLETED == "completed"
FAILED == "failed"

OpKinds == {"sync", "async"}
\* what a submitted operation can do when it is run to its end
Outcomes == {[raises |-> FALSE, val |-> "res"], [raises |-> TRUE, val |-> "err"]}

\* the job is created as one that has started
AsyncTask_Started(kind) ==
    [kind |-> kind, status |-> PROCESSING, result |-> "None", error |-> "None",
     created_at |-> now, started_at |-> now, completed_at |-> NoTime]

\* AsyncTask.__init__
AsyncTask(kind) ==
    [kind |-> kind, status |-> PENDING, result |-> "None", error |-> "None",
     created_at |-> now, started_at |-> NoTime, completed_at |-> NoTime]

QInit ==
    /\ running = FALSE
    /\ tasks = <<>>
    /\ putq = <<>>
    /\ queue = <<>>
    /\ running_tasks = {}
    /\ workers = {}
    /\ wtask = <<>>
    /\ stopPc = "idle"
    /\ gathered = {}
    /\ hist = <<>>
    /\ claimedBy = <<>>
    /\ atStop = {}
    /\ raisedIn = [w \in WorkerIds |-> {}]

\* _fallback_schedule_analysis not called
KIdle ==
    /\ kPc = "idle"
    /\ kNow = 0
    /\ kWork = 0
    /\ kTasks = <<>>
    /\ kOut = <<>>

\* parse_tasks not called
PIdle ==
    /\ pPc = "idle"
    /\ pText = 0
    /\ pCached = "None"
    /\ pResp = 0
    /\ pOut = 0

\* get_task_status not called
JIdle == jRet = <<>>

\* parse_tasks_async not called
OIdle == jArgs = <<>>

\* _make_api_request_with_retry not called
XIdle ==
    /\ xPc = "idle"
    /\ xAttempt = 0
    /\ xReqs = <<>>
    /\ xSleeps = <<>>

\* _generate_recurring_tasks not called
RIdle ==
    /\ rPc = "idle"
    /\ rParent = 0
    /\ rMax = 0
    /\ rOut = <<>>

\* AsyncTaskQueue.start
Start ==
    /\ ~running
    /\ Len(wtask) + max_concurrent_tasks <= MaxWorkerTasks
    /\ running' = TRUE
    /\ wtask' = wtask \o [i \in 1..max_concurrent_tasks |->
                            [pc |-> "new", job |-> 0, cancel |-> FALSE]]
    /\ workers' = workers \cup ((Len(wtask) + 1)..(Len(wtask) + max_concurrent_tasks))
    /\ UNCHANGED <<tasks, putq, queue, running_tasks, stopPc, gathered, hist,
                   claimedBy, atStop, raisedIn>>
    /\ UNCHANGED nonq

\* worker.cancel() of stop(): a finished task ignores it
CancelWorker(t) == IF t.pc = "done" THEN t ELSE [t EXCEPT !.cancel = TRUE]

\* AsyncTaskQueue.stop up to its await (gather() of no task does not suspend)
Stop ==
    /\ stopPc = "idle"
    /\ running' = FALSE
    /\ wtask' = [w \in DOMAIN wtask |->
                    IF w \in workers THEN CancelWorker(wtask[w]) ELSE wtask[w]]
    /\ atStop' = {j \in DOMAIN tasks : tasks[j].status = PROCESSING}
    /\ IF workers = {}
          THEN UNCHANGED <<stopPc, gathered, workers>>
          ELSE /\ stopPc' = "gather"
               /\ gathered' = workers
               /\ UNCHANGED workers
    /\ UNCHANGED <<tasks, putq, queue, running_tasks, hist, claimedBy, raisedIn>>
    /\ UNCHANGED nonq

\* AsyncTaskQueue.stop after gather() returned
StopReturn ==
    /\ stopPc = "gather"
    /\ \A w \in gathered : wtask[w].pc = "done"
    /\ workers' = {}
    /\ stopPc' = "idle"
    /\ gathered' = {}
    /\ UNCHANGED <<running, tasks, putq, queue, running_tasks, wtask, hist,
                   claimedBy, atStop, raisedIn>>
    /\ UNCHANGED nonq

\* uuid.uuid4() of submit_task: an id that no call has returned before
FreshJobId == Len(hist) + 1

\* AsyncTaskQueue.submit_task
SubmitTask(kind) ==
    /\ Len(hist) < MaxJobs
    /\ tasks' = [j \in DOMAIN tasks \cup {FreshJobId} |->
                    IF j = FreshJobId THEN AsyncTask(kind) ELSE tasks[j]]
    /\ putq' = Append(putq, FreshJobId)
    /\ hist' = Append(hist, <<PENDING>>)
    /\ claimedBy' = Append(claimedBy, {})
    /\ UNCHANGED <<running, queue, running_tasks, workers, wtask, stopPc,
                   gathered, atStop, raisedIn>>
    /\ UNCHANGED nonq

\* the item jumps the queue
Enqueue_AtFront(q, j) == <<j>> \o q

\* asyncio.Queue.put on an unbounded queue: the item goes to the end
Enqueue(q, j) == Append(q, j)

\* the task created by submit_task runs self.queue.put(task)
QueuePut ==
    /\ putq # <<>>
    /\ queue' = Enqueue(queue, Head(putq))
    /\ putq' = Tail(putq)
    /\ UNCHANGED <<running, tasks, running_tasks, workers, wtask, stopPc,
                   gathered, hist, claimedBy, atStop, raisedIn>>
    /\ UNCHANGED nonq

\* the loop test of _worker after an iteration
LoopTest(isRunning) == IF isRunning THEN "get" ELSE "done"

\* _worker: first step of the coroutine
WorkerBegin(w) ==
    /\ w \in DOMAIN wtask
    /\ wtask[w].pc = "new"
    /\ ~wtask[w].cancel
    /\ wtask' = [wtask EXCEPT ![w].pc = LoopTest(running)]
    /\ UNCHANGED <<running, tasks, putq, queue, running_tasks, workers, stopPc,
                   gathered, hist, claimedBy, atStop, raisedIn>>
    /\ UNCHANGED nonq

\* _worker: CancelledError delivered before the first step or in queue.get()
WorkerCancelled(w) ==
    /\ w \in DOMAIN wtask
    /\ wtask[w].pc \in {"new", "get"}
    /\ wtask[w].cancel
    /\ wtask' = [wtask EXCEPT ![w].pc = "done"]
    /\ UNCHANGED <<running, tasks, putq, queue, running_tasks, workers, stopPc,
                   gathered, hist, claimedBy, atStop, raisedIn>>
    /\ UNCHANGED nonq

\* _worker: wait_for times out on an empty queue, the loop test fails
WorkerTimeout(w) ==
    /\ w \in DOMAIN wtask
    /\ wtask[w].pc = "get"
    /\ ~wtask[w].cancel
    /\ queue = <<>>
    /\ ~running
    /\ wtask' = [wtask EXCEPT ![w].pc = "done"]
    /\ UNCHANGED <<running, tasks, putq, queue, running_tasks, workers, stopPc,
                   gathered, hist, claimedBy, atStop, raisedIn>>
    /\ UNCHANGED nonq

\* _process_task, lines 90-92
BeginJob(t) == [t EXCEPT !.status = PROCESSING, !.started_at = now]

\* a failure recorded as a success
StatusAfter_AlwaysCompleted(out) == COMPLETED

\* _process_task, lines 103-104 and 108-109
StatusAfter(out) == IF out.raises THEN FAILED ELSE COMPLETED

\* _process_task, lines 96-114: the operation returned or raised an Exception
EndJob(t, out) ==
    [t EXCEPT !.status = StatusAfter(out),
              !.result = IF out.raises THEN t.result ELSE out.val,
              !.error = IF out.raises THEN out.val ELSE t.error,
              !.completed_at = now]

\* _process_task, lines 112-114 alone: CancelledError is not an Exception
AbortJob(t) == [t EXCEPT !.completed_at = now]

\* an exception of the operation that ends the worker
AfterJob_RaiseKillsWorker(out, isRunning) == IF out.raises THEN "done" ELSE LoopTest(isRunning)

\* the worker's position after _process_task and queue.task_done() returned
AfterJob(out, isRunning) == LoopTest(isRunning)

\* the item stays in the queue
Dequeue_Peek(q) == q

\* asyncio.Queue.get: the item handed to the worker leaves the queue
Dequeue(q) == Tail(q)

\* _worker: an item arrives from queue.get(); a synchronous operation runs to
\* its end inside the step, a coroutine function suspends
WorkerGet(w, out) ==
    /\ w \in DOMAIN wtask
    /\ wtask[w].pc = "get"
    /\ ~wtask[w].cancel
    /\ queue # <<>>
    /\ LET j == Head(queue) IN
       /\ queue' = Dequeue(queue)
       /\ claimedBy' = [claimedBy EXCEPT ![j] = @ \cup {w}]
       /\ IF tasks[j].kind = "sync"
             THEN /\ tasks' = [tasks EXCEPT ![j] = EndJob(BeginJob(@), out)]
                  /\ hist' = [hist EXCEPT ![j] = @ \o <<PROCESSING, StatusAfter(out)>>]
                  /\ wtask' = [wtask EXCEPT ![w].pc = AfterJob(out, running), ![w].job = j]
                  /\ raisedIn' = [raisedIn EXCEPT ![w] = IF out.raises THEN @ \cup {j} ELSE @]
                  /\ UNCHANGED running_tasks
             ELSE /\ out = CHOOSE o \in Outcomes : TRUE
                  /\ tasks' = [tasks EXCEPT ![j] = BeginJob(@)]
                  /\ hist' = [hist EXCEPT ![j] = Append(@, PROCESSING)]
                  /\ wtask' = [wtask EXCEPT ![w].pc = "op", ![w].job = j]
                  /\ running_tasks' = running_tasks \cup {j}
                  /\ UNCHANGED raisedIn
    /\ UNCHANGED <<running, putq, workers, stopPc, gathered, atStop>>
    /\ UNCHANGED nonq

\* _process_task: the awaited operation returns or raises an Exception
OpFinish(w, out) ==
    /\ w \in DOMAIN wtask
    /\ wtask[w].pc = "op"
    /\ ~wtask[w].cancel
    /\ LET j == wtask[w].job IN
       /\ tasks' = [tasks EXCEPT ![j] = EndJob(@, out)]
       /\ hist' = [hist EXCEPT ![j] = Append(@, StatusAfter(out))]
       /\ running_tasks' = running_tasks \ {j}
       /\ raisedIn' = [raisedIn EXCEPT ![w] = IF out.raises THEN @ \cup {j} ELSE @]
    /\ wtask' = [wtask EXCEPT ![w].pc = AfterJob(out, running)]
    /\ UNCHANGED <<running, putq, queue, workers, stopPc, gathered, claimedBy, atStop>>
    /\ UNCHANGED nonq

\* _process_task: CancelledError is thrown into the awaited operation
OpCancelled(w) ==
    /\ w \in DOMAIN wtask
    /\ wtask[w].pc = "op"
    /\ wtask[w].cancel
    /\ LET j == wtask[w].job IN
       /\ tasks' = [tasks EXCEPT ![j] = AbortJob(@)]
       /\ running_tasks' = running_tasks \ {j}
    /\ wtask' = [wtask EXCEPT ![w].pc = "done"]
    /\ UNCHANGED <<running, putq, queue, workers, stopPc, gathered, hist,
                   claimedBy, atStop, raisedIn>>
    /\ UNCHANGED nonq

(***************************************************************************)
(* Dates.  A datetime is the number of seconds since 2024-01-01T00:00:00   *)
(* (a Monday); NoTime stands for None.                                     *)
(***************************************************************************)
EpochYear == 2024
DaySeconds == 86400

\* calendar.isleap
IsLeap(y) == (y % 4 = 0 /\ y % 100 # 0) \/ y % 400 = 0

DaysInYear(y) == IF IsLeap(y) THEN 366 ELSE 365

\* calendar.monthrange(year, month)[1]
DaysInMonth(y, m) ==
    IF m = 2 THEN (IF IsLeap(y) THEN 29 ELSE 28)
    ELSE IF m \in {4, 6, 9, 11} THEN 30 ELSE 31

RECURSIVE YearFrom(_, _)
\* <<year, day of the year (from 0)>> of day number d counted from 1 January of y
YearFrom(y, d) == IF d < DaysInYear(y) THEN <<y, d>> ELSE YearFrom(y + 1, d - DaysInYear(y))

RECURSIVE MonthFrom(_, _, _)
\* <<month, day of the month>> of day d (from 0) counted from the first of month m
MonthFrom(y, m, d) ==
    IF d < DaysInMonth(y, m) THEN <<m, d + 1>> ELSE MonthFrom(y, m + 1, d - DaysInMonth(y, m))

RECURSIVE DaysBeforeYear(_)
DaysBeforeYear(y) == IF y <= EpochYear THEN 0 ELSE DaysBeforeYear(y - 1) + DaysInYear(y - 1)

RECURSIVE DaysBeforeMonth(_, _)
DaysBeforeMonth(y, m) == IF m <= 1 THEN 0 ELSE DaysBeforeMonth(y, m - 1) + DaysInMonth(y, m - 1)

\* datetime(year, month, day) + time of day
MkDate(y, m, d, tod) == (DaysBeforeYear(y) + DaysBeforeMonth(y, m) + (d - 1)) * DaySeconds + tod

DayNo(dt) == dt \div DaySeconds
TimeOfDay(dt) == dt % DaySeconds
YearOf(dt) == YearFrom(EpochYear, DayNo(dt))[1]
MonthOf(dt) == MonthFrom(YearOf(dt), 1, YearFrom(EpochYear, DayNo(dt))[2])[1]
DayOf(dt) == MonthFrom(YearOf(dt), 1, YearFrom(EpochYear, DayNo(dt))[2])[2]

\* datetime.weekday(): 0 = Monday
Weekday(dt) == DayNo(dt) % 7

\* datetime.replace(year=, month=, day=) raises ValueError for a day that
\* does not exist
ValidDate(y, m, d) == d >= 1 /\ d <= DaysInMonth(y, m)

Min(a, b) == IF a < b THEN a ELSE b
Max(a, b) == IF a > b THEN a ELSE b

(***************************************************************************)
(* Tasks and recurrence rules (models/task.py).                            *)
(***************************************************************************)
\* recurrence_rule = None
NoRule == [frequency |-> "none", interval |-> 1, days_of_week |-> <<>>,
           end_date |-> NoTime, count |-> 0]

\* RecurrenceRule; days_of_week None is <<>>, end_date None is NoTime,
\* count None is 0 (a count is validated to be >= 1)
RecurrenceRule(f, k, dow, until, c) ==
    [frequency |-> f, interval |-> k, days_of_week |-> dow, end_date |-> until, count |-> c]

(***************************************************************************)
(* Recurrence engine (TaskService).                                        *)
(***************************************************************************)
\* the year and month reached by the while loop of the monthly branch
RECURSIVE NormalizeMonth(_, _)
NormalizeMonth(year, month) ==
    IF month > 12 THEN NormalizeMonth(year + 1, month - 12) ELSE <<year, month>>

\* the interval is applied to the first occurrence only
DailyOccurrence_IntervalOnce(start_time, interval, occurrence_number) ==
    start_time + DaySeconds * (interval + occurrence_number - 1)

\* _calculate_next_occurrence, line 253: timedelta(days=interval * occurrence_number)
DailyOccurrence(start_time, interval, occurrence_number) ==
    start_time + DaySeconds * (interval * occurrence_number)

\* a start on the target weekday counts as the first occurrence
FirstDaysAhead_SameDay(current_weekday, target_weekday) ==
    (target_weekday - current_weekday) % 7

\* _calculate_next_occurrence, lines 262-271: the days to the next target
\* weekday, a full week when the start is on it
FirstDaysAhead(current_weekday, target_weekday) ==
    LET d == (target_weekday - current_weekday) % 7
    IN IF d = 0 THEN 7 ELSE d

\* the day is kept and the date rolls over into the following month
ReplaceYearMonth_RollOver(start_time, year, month) ==
    MkDate(year, month, DayOf(start_time), TimeOfDay(start_time))

\* _calculate_next_occurrence, lines 289-296: replace(year, month), and on
\* ValueError the last day of the month
ReplaceYearMonth(start_time, year, month) ==
    LET day == DayOf(start_time)
    IN IF ValidDate(year, month, day)
          THEN MkDate(year, month, day, TimeOfDay(start_time))
          ELSE MkDate(year, month, Min(day, DaysInMonth(year, month)), TimeOfDay(start_time))

\* TaskService._calculate_next_occurrence
CalculateNextOccurrence(start_time, rule, occurrence_number) ==
    IF rule.frequency = "daily" THEN
        DailyOccurrence(start_time, rule.interval, occurrence_number)
    ELSE IF rule.frequency = "weekly" THEN
        IF rule.days_of_week # <<>> THEN
            LET current_weekday == Weekday(start_time)
                target_weekday == rule.days_of_week[1]
                first == FirstDaysAhead(current_weekday, target_weekday)
                days_ahead == IF occurrence_number = 1 THEN first
                              ELSE first + 7 * rule.interval * (occurrence_number - 1)
            IN start_time + DaySeconds * days_ahead
        ELSE start_time + 7 * DaySeconds * (rule.interval * occurrence_number)
    ELSE IF rule.frequency = "monthly" THEN
        LET ym == NormalizeMonth(YearOf(start_time),
                                 MonthOf(start_time) + rule.interval * occurrence_number)
        IN ReplaceYearMonth(start_time, ym[1], ym[2])
    ELSE IF rule.frequency = "yearly" THEN
        LET year == YearOf(start_time) + rule.interval * occurrence_number
            month == MonthOf(start_time)
            day == DayOf(start_time)
        IN IF ValidDate(year, month, day)
              THEN MkDate(year, month, day, TimeOfDay(start_time))
              ELSE MkDate(year, month, 28, TimeOfDay(start_time))
    ELSE start_time

\* the end date is not tested
LoopBreaks_NoEndDate(rule, next_start, i) == rule.count # 0 /\ i >= rule.count

\* the count test is off by one
LoopBreaks_CountOffByOne(rule, next_start, i) ==
    \/ rule.end_date # NoTime /\ next_start > rule.end_date
    \/ rule.count # 0 /\ i > rule.count

\* _generate_recurring_tasks, lines 219-225: the two break tests of the loop
LoopBreaks(rule, next_start, i) ==
    \/ rule.end_date # NoTime /\ next_start > rule.end_date
    \/ rule.count # 0 /\ i >= rule.count

\* _generate_recurring_tasks, lines 209-212 and 227-230: timedelta(0) is falsy
NextEnd(parent_task, next_start) ==
    IF parent_task.end # NoTime /\ parent_task.end - parent_task.start # 0
       THEN next_start + (parent_task.end - parent_task.start)
       ELSE NoTime

\* the instance keeps the rule of its definition and is recurring itself
Instance_KeepsRule(parent_task, id, next_start) ==
    [id |-> id, title |-> parent_task.title, start |-> next_start,
     end |-> NextEnd(parent_task, next_start), priority |-> parent_task.priority,
     recurrence_rule |-> parent_task.recurrence_rule, is_recurring |-> TRUE,
     parent_task_id |-> parent_task.id, reminder_type |-> "none",
     is_important |-> FALSE, reminder_sent |-> FALSE,
     created_at |-> parent_task.created_at, updated_at |-> parent_task.updated_at]

\* _generate_recurring_tasks, lines 232-244: the instance; reminder_type,
\* is_important and reminder_sent are not passed and take the model defaults
Instance(parent_task, id, next_start) ==
    [id |-> id, title |-> parent_task.title, start |-> next_start,
     end |-> NextEnd(parent_task, next_start), priority |-> parent_task.priority,
     recurrence_rule |-> NoRule, is_recurring |-> FALSE,
     parent_task_id |-> parent_task.id, reminder_type |-> "none",
     is_important |-> FALSE, reminder_sent |-> FALSE,
     created_at |-> parent_task.created_at, updated_at |-> parent_task.updated_at]

RECURSIVE GenerateLoop(_, _, _, _, _)
\* _generate_recurring_tasks, lines 215-246: the iterations from i on;
\* ids are the fresh ids firstId, firstId + 1, ...
GenerateLoop(parent_task, max_instances, i, firstId, acc) ==
    IF i > max_instances THEN acc
    ELSE LET next_start == CalculateNextOccurrence(parent_task.start,
                                                   parent_task.recurrence_rule, i)
         IN IF LoopBreaks(parent_task.recurrence_rule, next_start, i) THEN acc
            ELSE GenerateLoop(parent_task, max_instances, i + 1, firstId,
                              Append(acc, Instance(parent_task, firstId + Len(acc), next_start)))

\* TaskService._generate_recurring_tasks
GenerateRecurringTasks(parent_task, max_instances, firstId) ==
    IF parent_task.recurrence_rule = NoRule THEN <<>>
    ELSE GenerateLoop(parent_task, max_instances, 1, firstId, <<>>)


(***************************************************************************)
(* TaskService: the data file and the three caches in front of it, and     *)
(* the cache of DeepSeekService.  Every method of TaskService is a         *)
(* coroutine without a suspension point, so each call is one step.         *)
(***************************************************************************)
Users == {"u1", "u2"}

Methods == {"get_all_tasks", "get_upcoming_tasks"}

\* _get_query_cache_key: one key per method and user (no other arguments
\* are passed by the two cached methods)
GetQueryCacheKey(method, user_id) == <<method, user_id>>

QueryKeys == {GetQueryCacheKey(m, u) : m \in Methods, u \in Users}

Descriptions == {"write report"}

\* DeepSeekService._get_cache_key for analyze_schedule: the text is
\* f"{description}:{len(existing_tasks)}"
GetCacheKey(description, existing_tasks) == <<description, Len(existing_tasks)>>

AnalysisKeys == {<<d, n>> : d \in Descriptions, n \in 0..MaxTasks}

\* the file as _init_data_file writes it
EmptyData == [users |-> {}, tasks |-> [u \in Users |-> <<>>]]

\* a cache without an entry for the key, and an entry stored at time t
NoEntry == [set |-> FALSE, val |-> <<>>, ts |-> NoTime]
Entry(v, t) == [set |-> TRUE, val |-> v, ts |-> t]

NoFileCache == [set |-> FALSE, data |-> EmptyData, ts |-> NoTime]

SInit ==
    /\ now = 0
    /\ file = EmptyData
    /\ fdc = NoFileCache
    /\ ucache = [u \in Users |-> NoEntry]
    /\ qcache = [k \in QueryKeys |-> NoEntry]
    /\ acache = [k \in AnalysisKeys |-> NoEntry]
    /\ nextTaskId = 1
    /\ createdBy = [id \in 1..MaxTasks |-> "none"]
    /\ saved = "none"
    /\ last = "none"

\* TaskService.__init__ of the second instance, lines 25-37
IIdle ==
    /\ fdc2 = NoFileCache
    /\ via2 = {}

(***************************************************************************)
(* The credential cache of middleware/auth.py. A key is the md5 digest of  *)
(* a token; distinct tokens of the model have distinct digests.            *)
(***************************************************************************)
Tokens == 1..MaxTokens

\* the tokens of the calls that race for a full cache: one for every entry
\* of a full cache and one for every call that can be suspended
RaceTokens == 1..(MaxCacheSize + MaxPending)

TInit ==
    /\ tNow = 0
    /\ token_cache = <<>>
    /\ tPending = {}
    /\ tInserted = [k \in Tokens \cup RaceTokens |-> NoTime]

\* the keys of a dict
Keys(c) == {c[i].key : i \in 1..Len(c)}

\* lines 22-27: the entries that are left when the expired ones are deleted
DeleteExpired(c, t) == SelectSeq(c, LAMBDA e : ~(t - e.ts >= CACHE_TTL))

RECURSIVE SortByCachedTime(_)
\* line 31: sorted(token_cache.items(), key=cached_time), a stable sort
SortByCachedTime(c) ==
    IF c = <<>> THEN <<>>
    ELSE LET first == CHOOSE t \in {c[i].ts : i \in 1..Len(c)} :
                          \A i \in 1..Len(c) : t <= c[i].ts
         IN SelectSeq(c, LAMBDA e : e.ts = first)
                \o SortByCachedTime(SelectSeq(c, LAMBDA e : e.ts # first))

\* lines 30-35: the oldest entries over the maximal size are deleted
EvictOldest(c) ==
    IF Len(c) > MaxCacheSize
       THEN LET removed == Keys(SubSeq(SortByCachedTime(c), 1, Len(c) - MaxCacheSize))
            IN SelectSeq(c, LAMBDA e : e.key \notin removed)
       ELSE c

\* clean_expired_cache called at time t
CleanExpiredCache(c, t) == EvictOldest(DeleteExpired(c, t))

\* token_cache[key] = (val, ts): a key of the dict keeps its position
PutToken(c, key, val, ts) ==
    IF key \in Keys(c)
       THEN [i \in 1..Len(c) |-> IF c[i].key = key THEN [key |-> key, val |-> val, ts |-> ts]
                                  ELSE c[i]]
       ELSE Append(c, [key |-> key, val |-> val, ts |-> ts])

\* lines 48-49: the dict after the cleanup of a call
CleanedOnEntry == 
    IF Len(token_cache) > CleanThreshold THEN CleanExpiredCache(token_cache, tNow)
    ELSE token_cache

\* verify_supabase_token, lines 44-73: up to the return of the cached result
\* or to the request that is awaited
VerifyBegin(token) ==
    LET c == CleanedOnEntry
        hit == \E i \in 1..Len(c) : c[i].key = token /\ tNow - c[i].ts < CACHE_TTL
    IN /\ IF hit
             THEN token_cache' = c /\ UNCHANGED tPending
             ELSE /\ Cardinality(tPending) < MaxPending
                  /\ token_cache' = SelectSeq(c, LAMBDA e : e.key # token)
                  /\ tPending' = tPending \cup {[token |-> token, current_time |-> tNow]}
       /\ UNCHANGED <<tNow, tInserted>>
       /\ UNCHANGED nont

\* the status codes of the response; 500 stands for every other status, and
\* for a timeout or another exception, which leave the dict alone as well
Statuses == {200, 401, 500}

\* verify_supabase_token, lines 75-102: the response has arrived
VerifyResponse(p, status_code) ==
    /\ p \in tPending
    /\ tPending' = tPending \ {p}
    /\ IF status_code \in {200, 401}
          THEN /\ token_cache' = PutToken(token_cache, p.token,
                                          IF status_code = 200 THEN "user" ELSE "None",
                                          p.current_time)
               /\ tInserted' = [tInserted EXCEPT ![p.token] = tNow]
          ELSE UNCHANGED <<token_cache, tInserted>>
    /\ UNCHANGED tNow
    /\ UNCHANGED nont

TTimes == {0, 1, 2, 300}

\* time passes
TokenTick ==
    /\ \E t \in TTimes : t > tNow /\ tNow' = t
    /\ UNCHANGED <<token_cache, tPending, tInserted>>
    /\ UNCHANGED nont

\* _load_data, lines 57-60: the file cache is used while it is younger than its ttl
FileCacheValid == fdc.set /\ now - fdc.ts < file_cache_ttl

\* _load_data: the object it returns ...
LoadData == IF FileCacheValid THEN fdc.data ELSE file

\* ... and the file cache it leaves (lines 67-69)
FileCacheAfterLoad == IF FileCacheValid THEN fdc ELSE [set |-> TRUE, data |-> file, ts |-> now]

QueryCacheAfterSave_Kept(qc) == qc

\* _save_data, lines 91-92: the query cache is emptied
QueryCacheAfterSave(qc) == [k \in QueryKeys |-> NoEntry]

\* _save_data(data): data is the object _load_data returned, changed in
\* place.  When the write succeeds the three caches are emptied; when it
\* raises (open() refuses the file), the file and the caches stay and the
\* file cache holds the changed object.
SaveData(data, ok) ==
    IF ok
    THEN /\ file' = data
         /\ fdc' = NoFileCache
         /\ ucache' = [u \in Users |-> NoEntry]
         /\ qcache' = QueryCacheAfterSave(qcache)
         /\ saved' = "ok"
         /\ last' = "saved"
    ELSE /\ fdc' = [FileCacheAfterLoad EXCEPT !.data = data]
         /\ saved' = "failed"
         /\ last' = "failed"
         /\ UNCHANGED <<file, ucache, qcache>>

\* _get_query_cache, lines 110-121: the entry is returned unless its age
\* is greater than the ttl
QueryHit(qc, key, t) == qc[key].set /\ ~(t - qc[key].ts > query_cache_ttl)

\* _get_query_cache: the cache it leaves; an expired entry is deleted
QueryCacheAfterGet(qc, key, t) ==
    IF qc[key].set /\ ~QueryHit(qc, key, t) THEN [qc EXCEPT ![key] = NoEntry] ELSE qc

\* _set_query_cache
SetQueryCache(qc, key, v, t) == [qc EXCEPT ![key] = Entry(v, t)]

\* DeepSeekService._get_cached_result, lines 50-61
CachedResultHit(c, key, t) == c[key].set /\ ~(t - c[key].ts > text_cache_ttl)

CacheAfterGet(c, key, t) ==
    IF c[key].set /\ ~CachedResultHit(c, key, t) THEN [c EXCEPT ![key] = NoEntry] ELSE c

\* DeepSeekService._set_cache_result
SetCacheResult(c, key, v, t) == [c EXCEPT ![key] = Entry(v, t)]

(***************************************************************************)
(* The recurrence engine as a function of its inputs: every state after    *)
(* Init is a call of _generate_recurring_tasks that has returned.          *)
(***************************************************************************)
RStarts == {MkDate(2024, 1, 29, 72000), MkDate(2024, 1, 31, 32400), MkDate(2024, 2, 29, 0)}

\* the rules without an end date
RBaseRules ==
    {RecurrenceRule(f, k, <<>>, NoTime, c) :
        f \in {"daily", "weekly", "monthly", "yearly"}, k \in {1, 2}, c \in 0..MaxInstances}
    \cup {RecurrenceRule("weekly", k, <<d>>, NoTime, c) :
        k \in {1, 2}, d \in {0, 2, 6}, c \in 0..MaxInstances}

\* end dates around the occurrences of the rule: one second before, on and
\* one second after each of them
REndDates(start, rule) ==
    {NoTime} \cup {CalculateNextOccurrence(start, rule, i) + d :
                     i \in 1..MaxInstances, d \in {-1, 0, 1}}

RInit ==
    /\ rPc = "call"
    /\ rMax \in 1..MaxInstances
    /\ rOut = <<>>
    /\ \E st \in RStarts, en \in {NoTime, 0, 3600}, r \in RBaseRules,
          pr \in {[priority |-> "medium", reminder_type |-> "none", is_important |-> FALSE],
                  [priority |-> "high", reminder_type |-> "before_5min", is_important |-> TRUE]} :
         \E until \in REndDates(st, r) :
            rParent = [id |-> 1, title |-> "t", start |-> st,
                       end |-> IF en = NoTime THEN NoTime ELSE st + en,
                       priority |-> pr.priority,
                       recurrence_rule |-> [r EXCEPT !.end_date = until],
                       is_recurring |-> TRUE, parent_task_id |-> 0,
                       reminder_type |-> pr.reminder_type,
                       is_important |-> pr.is_important, reminder_sent |-> FALSE,
                       created_at |-> 0, updated_at |-> 0]
    /\ QInit
    /\ KIdle
    /\ SInit
    /\ TInit
    /\ PIdle
    /\ JIdle
    /\ OIdle
    /\ IIdle
    /\ XIdle

\* a call of TaskService._generate_recurring_tasks
GenerateCall ==
    /\ rPc = "call"
    /\ rOut' = GenerateRecurringTasks(rParent, rMax, rParent.id + 1)
    /\ rPc' = "done"
    /\ UNCHANGED <<rParent, rMax>>
    /\ UNCHANGED nonr

RNext == GenerateCall

SpecRecur == RInit /\ [][RNext]_vars

(***************************************************************************)
(* Scheduling recommender (DeepSeekService._fallback_schedule_analysis).   *)
(* An existing task is [start, end]; end = NoTime is a task without end,   *)
(* whose 'end' string datetime.fromisoformat cannot parse.                 *)
(***************************************************************************)
HourSeconds == 3600

\* lines 1079-1090: the candidate hours for the keywords of the description
RecommendedHours(kind) ==
    IF kind = "creative" THEN <<9, 10>>
    ELSE IF kind = "meeting" THEN <<10, 14, 15>>
    ELSE IF kind = "study" THEN <<9, 19, 20>>
    ELSE <<9, 14, 16>>

\* lines 1069-1074: the day offsets that are scanned
ScannedDays(current_time) ==
    IF TimeOfDay(current_time) \div HourSeconds >= 18 THEN <<1, 2, 3, 4, 5, 6>>
    ELSE <<0, 1, 2, 3, 4, 5, 6>>

\* line 1093: target_date.replace(hour=hour, minute=0, second=0, microsecond=0)
SlotStart(current_time, day_offset, hour) ==
    (DayNo(current_time) + day_offset) * DaySeconds + hour * HourSeconds

RECURSIVE ConflictScan(_, _, _, _)
\* lines 1097-1104: "error" when a task cannot be parsed before a conflict
\* is found, else "conflict" or "free"
ConflictScan(start_time, end_time, existing, n) ==
    IF n > Len(existing) THEN "free"
    ELSE IF existing[n].start = NoTime \/ existing[n].end = NoTime THEN "error"
    ELSE IF start_time < existing[n].end /\ end_time > existing[n].start THEN "conflict"
    ELSE ConflictScan(start_time, end_time, existing, n + 1)

\* line 1118: timedelta.days rounds towards minus infinity
DaysUntil(deadline, start_time) == (deadline - start_time) \div DaySeconds

\* lines 1108-1128
SlotScore(work, hour, start_time) ==
    5 + (IF 9 <= hour /\ hour <= 11 THEN 2 ELSE IF 14 <= hour /\ hour <= 16 THEN 1 ELSE 0)
      + (IF work.deadline = NoTime THEN 0
         ELSE IF DaysUntil(work.deadline, start_time) <= 1 THEN 3
         ELSE IF DaysUntil(work.deadline, start_time) <= 3 THEN 1 ELSE 0)
      + (IF work.priority = "high" THEN 1 ELSE IF work.priority = "low" THEN -1 ELSE 0)

\* line 1136
ClampScore(score) == Min(10, Max(1, score))

\* lines 1132-1137
MakeSlot(work, hour, start_time) ==
    [start |-> start_time, end |-> start_time + work.duration,
     score |-> ClampScore(SlotScore(work, hour, start_time))]

RECURSIVE ScanFrom(_, _, _, _, _, _)
\* lines 1069-1138: the scan from day index di and hour index hi on; raised
\* tells that an exception ended the scan
ScanFrom(current_time, work, existing, di, hi, acc) ==
    LET days == ScannedDays(current_time)
        hours == RecommendedHours(work.kind)
    IN IF di > Len(days) THEN [raised |-> FALSE, slots |-> acc]
       ELSE IF hi > Len(hours) THEN ScanFrom(current_time, work, existing, di + 1, 1, acc)
       ELSE LET start_time == SlotStart(current_time, days[di], hours[hi])
                c == ConflictScan(start_time, start_time + work.duration, existing, 1)
            IN IF c = "error" THEN [raised |-> TRUE, slots |-> acc]
               ELSE IF c = "conflict"
                  THEN ScanFrom(current_time, work, existing, di, hi + 1, acc)
                  ELSE ScanFrom(current_time, work, existing, di, hi + 1,
                                Append(acc, MakeSlot(work, hours[hi], start_time)))

\* the slots stay in the order of the scan
SortByScore_ScanOrder(slots, score) == slots

RECURSIVE SortByScore(_, _)
\* line 1141: list.sort(key=score, reverse=True) is stable
SortByScore(slots, score) ==
    IF score < 1 THEN <<>>
    ELSE SelectSeq(slots, LAMBDA x : x.score = score) \o SortByScore(slots, score - 1)

\* line 1142: time_slots[:5]
FirstFive(slots) == SubSeq(slots, 1, Min(5, Len(slots)))

\* lines 1144-1156: the slot returned when the scan raised
DefaultSlot(current_time, work) ==
    [start |-> SlotStart(current_time, 1, 9),
     end |-> SlotStart(current_time, 1, 9) + work.duration, score |-> 5]

\* DeepSeekService._fallback_schedule_analysis
FallbackScheduleAnalysis(current_time, work, existing) ==
    LET scanned == ScanFrom(current_time, work, existing, 1, 1, <<>>)
    IN IF scanned.raised THEN <<DefaultSlot(current_time, work)>>
       ELSE FirstFive(SortByScore(scanned.slots, 10))

(***************************************************************************)
(* The recommender as a function of its inputs.                            *)
(***************************************************************************)
\* current times: 2024-01-01 10:30 and 18:30
KNows == {10 * HourSeconds + 1800, 18 * HourSeconds + 1800}

\* existing tasks: tomorrow 09:00-10:00, today 14:00-16:00, a task without
\* end tomorrow 09:00, and one that covers the whole scanned week
KTaskSet ==
    {[start |-> DaySeconds + 9 * HourSeconds, end |-> DaySeconds + 10 * HourSeconds],
     [start |-> 14 * HourSeconds, end |-> 16 * HourSeconds],
     [start |-> DaySeconds + 9 * HourSeconds, end |-> NoTime],
     [start |-> 0, end |-> 8 * DaySeconds]}

KTaskLists == UNION {[1..n -> KTaskSet] : n \in 0..MaxExisting}

KWorks ==
    [kind : {"creative", "meeting", "study", "default"},
     duration : {HourSeconds, 2 * HourSeconds},
     deadline : {NoTime, DaySeconds + 18 * HourSeconds, 5 * DaySeconds + 18 * HourSeconds},
     priority : {"low", "medium", "high"}]

KInit ==
    /\ kPc = "call"
    /\ kNow \in KNows
    /\ kWork \in KWorks
    /\ kTasks \in KTaskLists
    /\ kOut = <<>>
    /\ QInit
    /\ RIdle
    /\ SInit
    /\ TInit
    /\ PIdle
    /\ JIdle
    /\ OIdle
    /\ IIdle
    /\ XIdle

\* a call of DeepSeekService._fallback_schedule_analysis
RecommendCall ==
    /\ kPc = "call"
    /\ kOut' = FallbackScheduleAnalysis(kNow, kWork, kTasks)
    /\ kPc' = "done"
    /\ UNCHANGED <<kNow, kWork, kTasks>>
    /\ UNCHANGED nonk

KNext == RecommendCall

SpecRecommend == KInit /\ [][KNext]_vars

\* TaskCreate requests: two plain tasks and a daily task with two
\* occurrences; parent_task_id None is 0
TaskCreate(start, rule) ==
    [title |-> "a", start |-> start, end |-> NoTime, priority |-> "medium",
     recurrence_rule |-> rule, is_recurring |-> rule # NoRule, parent_task_id |-> 0,
     reminder_type |-> "none", is_important |-> FALSE]

SStarts == {5, 45}

SCreates ==
    {TaskCreate(s, NoRule) : s \in SStarts}
    \cup {TaskCreate(5, RecurrenceRule("daily", 1, <<>>, NoTime, 2))}

\* TaskUpdate requests; a field that is None is "None" or NoTime, and
\* is_important is <<>> for None and <<b>> for the boolean b
TaskUpdate(title, start) ==
    [title |-> title, start |-> start, end |-> NoTime, priority |-> "None",
     reminder_type |-> "None", is_important |-> <<>>]

SUpdates == {TaskUpdate("b", NoTime), TaskUpdate("None", 45)}

\* create_task, lines 313-327: the Task built from the request
NewTask(task_create, id, t) ==
    [id |-> id, title |-> task_create.title, start |-> task_create.start,
     end |-> task_create.end, priority |-> task_create.priority,
     recurrence_rule |-> task_create.recurrence_rule,
     is_recurring |-> task_create.is_recurring,
     parent_task_id |-> task_create.parent_task_id,
     reminder_type |-> task_create.reminder_type,
     is_important |-> task_create.is_important, reminder_sent |-> FALSE,
     created_at |-> t, updated_at |-> t]

\* create_task, lines 336-342: the dicts appended for one request
CreatedDicts(task_create, id, t) ==
    LET task == NewTask(task_create, id, t)
    IN <<task>> \o (IF task.is_recurring /\ task.recurrence_rule # NoRule
                    THEN GenerateRecurringTasks(task, default_max_instances, id + 1)
                    ELSE <<>>)

\* only the title is taken from the request
ApplyUpdate_TitleOnly(d, u, t) ==
    [d EXCEPT !.title = IF u.title # "None" THEN u.title ELSE @, !.updated_at = t]

\* update_task, lines 427-441: the dict after the update
ApplyUpdate(d, u, t) ==
    [d EXCEPT !.title = IF u.title # "None" THEN u.title ELSE @,
              !.start = IF u.start # NoTime THEN u.start ELSE @,
              !.end = IF u.end # NoTime THEN u.end ELSE @,
              !.priority = IF u.priority # "None" THEN u.priority ELSE @,
              !.reminder_type = IF u.reminder_type # "None" THEN u.reminder_type ELSE @,
              !.is_important = IF u.is_important # <<>> THEN u.is_important[1] ELSE @,
              !.updated_at = t]

\* the task list of a user in a data object; a user without an entry has none
TasksOf(data, user_id) == IF user_id \in data.users THEN data.tasks[user_id] ELSE <<>>

\* the index of the first dict with the id, 0 when there is none
FirstIndex(list, task_id) ==
    IF \E i \in 1..Len(list) : list[i].id = task_id
    THEN CHOOSE i \in 1..Len(list) :
            list[i].id = task_id /\ \A j \in 1..(i - 1) : list[j].id # task_id
    ELSE 0

\* the instances of the removed task go with it
RemoveAt_Cascade(list, i) ==
    SelectSeq(list, LAMBDA d : d.id # list[i].id /\ d.parent_task_id # list[i].id)

\* delete_task, line 463: del data["users"][user_id]["tasks"][i]
RemoveAt(list, i) == SubSeq(list, 1, i - 1) \o SubSeq(list, i + 1, Len(list))

RECURSIVE InsertByStart(_, _)
\* list.sort(key=start) is stable: an element goes behind the elements that
\* do not start later
InsertByStart(sorted, task) ==
    IF sorted = <<>> THEN <<task>>
    ELSE IF sorted[Len(sorted)].start <= task.start THEN Append(sorted, task)
    ELSE Append(InsertByStart(SubSeq(sorted, 1, Len(sorted) - 1), task), sorted[Len(sorted)])

RECURSIVE SortByStart(_)
\* tasks.sort(key=get_sort_key), line 386
SortByStart(list) ==
    IF list = <<>> THEN <<>>
    ELSE InsertByStart(SortByStart(SubSeq(list, 1, Len(list) - 1)), list[Len(list)])

\* get_upcoming_tasks, lines 699-712: the tasks of the window, sorted
UpcomingOf(all_tasks, t) ==
    LET upcoming_date == t + upcoming_days * DaySeconds
        Keep(task) == \/ task.start <= upcoming_date /\ task.start >= t
                      \/ task.end # NoTime /\ task.end <= upcoming_date /\ task.end >= t
    IN SortByStart(SelectSeq(all_tasks, Keep))

\* an operation that returns before _save_data: only _load_data has acted
ReturnUnsaved ==
    /\ fdc' = FileCacheAfterLoad
    /\ last' = "unsaved"
    /\ UNCHANGED <<file, ucache, qcache, saved>>

\* the instants at which the store is used
STimes == {0, 31}

\* the instants at which the caches alone are used
CTimes == {0, 30, 31, 600, 601}

\* time passes
Tick(times) ==
    /\ \E t \in times : t > now /\ now' = t
    /\ UNCHANGED <<file, fdc, ucache, qcache, acache, nextTaskId, createdBy, saved, last>>
    /\ UNCHANGED nons

RECURSIVE CreatedAll(_, _, _)
\* batch_create_tasks, lines 531-554: the dicts appended for the requests
CreatedAll(tasks_create, id, t) ==
    IF tasks_create = <<>> THEN <<>>
    ELSE LET dicts == CreatedDicts(Head(tasks_create), id, t)
         IN dicts \o CreatedAll(Tail(tasks_create), id + Len(dicts), t)

\* data["users"][user_id]["tasks"] = list, creating the entry of the user
WithTasks(data, user_id, list) ==
    [users |-> data.users \cup {user_id}, tasks |-> [data.tasks EXCEPT ![user_id] = list]]

\* TaskService.create_task
CreateTask(user_id, task_create, ok) ==
    LET data == LoadData
        dicts == CreatedDicts(task_create, nextTaskId, now)
    IN /\ nextTaskId + Len(dicts) - 1 <= MaxTasks
       /\ SaveData(WithTasks(data, user_id, TasksOf(data, user_id) \o dicts), ok)
       /\ nextTaskId' = nextTaskId + Len(dicts)
       /\ createdBy' = [id \in 1..MaxTasks |->
                           IF id \in nextTaskId..(nextTaskId + Len(dicts) - 1)
                           THEN user_id ELSE createdBy[id]]
       /\ UNCHANGED <<now, acache>>
       /\ UNCHANGED nons

\* TaskService.batch_create_tasks
BatchCreateTasks(user_id, tasks_create, ok) ==
    LET data == LoadData
        dicts == CreatedAll(tasks_create, nextTaskId, now)
    IN /\ nextTaskId + Len(dicts) - 1 <= MaxTasks
       /\ SaveData(WithTasks(data, user_id, TasksOf(data, user_id) \o dicts), ok)
       /\ nextTaskId' = nextTaskId + Len(dicts)
       /\ createdBy' = [id \in 1..MaxTasks |->
                           IF id \in nextTaskId..(nextTaskId + Len(dicts) - 1)
                           THEN user_id ELSE createdBy[id]]
       /\ UNCHANGED <<now, acache>>
       /\ UNCHANGED nons

\* TaskService.update_task
UpdateTask(user_id, task_id, task_update, ok) ==
    LET data == LoadData
        list == TasksOf(data, user_id)
        i == FirstIndex(list, task_id)
    IN /\ IF user_id \notin data.users \/ i = 0
          THEN ok /\ ReturnUnsaved
          ELSE SaveData(WithTasks(data, user_id,
                                  [list EXCEPT ![i] = ApplyUpdate(list[i], task_update, now)]),
                        ok)
       /\ UNCHANGED <<now, acache, nextTaskId, createdBy>>
       /\ UNCHANGED nons

\* TaskService.delete_task
DeleteTask(user_id, task_id, ok) ==
    LET data == LoadData
        list == TasksOf(data, user_id)
        i == FirstIndex(list, task_id)
    IN /\ IF user_id \notin data.users \/ i = 0
          THEN ok /\ ReturnUnsaved
          ELSE SaveData(WithTasks(data, user_id, RemoveAt(list, i)), ok)
       /\ UNCHANGED <<now, acache, nextTaskId, createdBy>>
       /\ UNCHANGED nons

\* TaskService.batch_delete_tasks
BatchDeleteTasks(user_id, task_ids, ok) ==
    LET data == LoadData
        list == TasksOf(data, user_id)
    IN /\ IF user_id \notin data.users
          THEN ok /\ ReturnUnsaved
          ELSE SaveData(WithTasks(data, user_id,
                                  SelectSeq(list, LAMBDA d : d.id \notin task_ids)), ok)
       /\ UNCHANGED <<now, acache, nextTaskId, createdBy>>
       /\ UNCHANGED nons

\* TaskService.batch_update_tasks; update_map is the dict built at line 600
BatchUpdateTasks(user_id, update_map, ok) ==
    LET data == LoadData
        list == TasksOf(data, user_id)
        updated == [i \in 1..Len(list) |->
                      IF list[i].id \in DOMAIN update_map
                      THEN ApplyUpdate(list[i], update_map[list[i].id], now)
                      ELSE list[i]]
    IN /\ IF user_id \notin data.users
          THEN ok /\ ReturnUnsaved
          ELSE SaveData(WithTasks(data, user_id, updated), ok)
       /\ UNCHANGED <<now, acache, nextTaskId, createdBy>>
       /\ UNCHANGED nons

\* get_all_tasks from a state whose query cache is qc: the list returned
\* and the caches left
GetAll(qc, user_id) ==
    LET key == GetQueryCacheKey("get_all_tasks", user_id)
        qc1 == QueryCacheAfterGet(qc, key, now)
        task_list == SortByStart(TasksOf(LoadData, user_id))
    IN IF QueryHit(qc, key, now)
       THEN [val |-> qc[key].val, fdc |-> fdc, ucache |-> ucache, qcache |-> qc]
       ELSE IF ucache[user_id].set /\ now - ucache[user_id].ts < user_cache_ttl
       THEN [val |-> ucache[user_id].val, fdc |-> fdc, ucache |-> ucache,
             qcache |-> SetQueryCache(qc1, key, ucache[user_id].val, now)]
       ELSE [val |-> task_list, fdc |-> FileCacheAfterLoad,
             ucache |-> [ucache EXCEPT ![user_id] = Entry(task_list, now)],
             qcache |-> SetQueryCache(qc1, key, task_list, now)]

\* get_upcoming_tasks: the list returned and the caches left
GetUpcoming(user_id) ==
    LET key == GetQueryCacheKey("get_upcoming_tasks", user_id)
        all == GetAll(QueryCacheAfterGet(qcache, key, now), user_id)
        upcoming_tasks == UpcomingOf(all.val, now)
    IN IF QueryHit(qcache, key, now)
       THEN [val |-> qcache[key].val, fdc |-> fdc, ucache |-> ucache, qcache |-> qcache]
       ELSE [val |-> upcoming_tasks, fdc |-> all.fdc, ucache |-> all.ucache,
             qcache |-> SetQueryCache(all.qcache, key, upcoming_tasks, now)]

\* a query has returned r
Queried(r) ==
    /\ fdc' = r.fdc
    /\ ucache' = r.ucache
    /\ qcache' = r.qcache
    /\ last' = "read"
    /\ UNCHANGED <<now, file, acache, nextTaskId, createdBy, saved>>
    /\ UNCHANGED nons

\* TaskService.get_all_tasks
GetAllTasks(user_id) == Queried(GetAll(qcache, user_id))

\* TaskService.get_upcoming_tasks
GetUpcomingTasks(user_id) == Queried(GetUpcoming(user_id))

\* get_task_by_id: the task returned, <<>> for None
GetById(user_id, task_id) ==
    LET list == TasksOf(LoadData, user_id)
        i == FirstIndex(list, task_id)
    IN IF i = 0 THEN <<>> ELSE <<list[i]>>

\* TaskService.get_task_by_id
GetTaskById(user_id, task_id) ==
    Queried([val |-> GetById(user_id, task_id), fdc |-> FileCacheAfterLoad,
             ucache |-> ucache, qcache |-> qcache])

\* the dict the caller of analyze_schedule builds from a task
ExistingDict(task) ==
    [id |-> task.id, title |-> task.title, start |-> task.start, end |-> task.end,
     priority |-> task.priority]

\* the existing_tasks argument: the tasks the user has at the call
ExistingTasks(user_id) ==
    LET list == SortByStart(TasksOf(file, user_id))
    IN [i \in 1..Len(list) |-> ExistingDict(list[i])]

\* analyze_schedule(description, existing_tasks).  A recommendation is
\* represented by the existing_tasks it was computed against: val is that
\* of the recommendation returned, cache the cache left.
Analyze(description, existing_tasks) ==
    LET cache_key == GetCacheKey(description, existing_tasks)
    IN IF CachedResultHit(acache, cache_key, now)
       THEN [hit |-> TRUE, val |-> acache[cache_key].val, cache |-> acache]
       ELSE [hit |-> FALSE, val |-> existing_tasks,
             cache |-> SetCacheResult(CacheAfterGet(acache, cache_key, now),
                                      cache_key, existing_tasks, now)]

\* DeepSeekService.analyze_schedule for the tasks the user has now
AnalyzeSchedule(user_id, description) ==
    /\ acache' = Analyze(description, ExistingTasks(user_id)).cache
    /\ last' = "analyzed"
    /\ UNCHANGED <<now, file, fdc, ucache, qcache, nextTaskId, createdBy, saved>>
    /\ UNCHANGED nons

\* the task lists and update maps passed to the batch operations
SCreateLists ==
    {<<>>, <<TaskCreate(45, NoRule), TaskCreate(5, NoRule)>>}
    \cup {<<c>> : c \in SCreates}

TaskIds == 1..MaxTasks

SUpdateMaps == UNION {[ids -> SUpdates] : ids \in SUBSET TaskIds}

\* the user of the store
SUsers == {"u1"}

\* the store used by one user, every write succeeding
SNext ==
    \/ Tick(STimes)
    \/ \E u \in SUsers, c \in SCreates : CreateTask(u, c, TRUE)
    \/ \E u \in SUsers, cs \in SCreateLists : BatchCreateTasks(u, cs, TRUE)
    \/ \E u \in SUsers, id \in TaskIds, up \in SUpdates : UpdateTask(u, id, up, TRUE)
    \/ \E u \in SUsers, id \in TaskIds : DeleteTask(u, id, TRUE)
    \/ \E u \in SUsers, ids \in SUBSET TaskIds : BatchDeleteTasks(u, ids, TRUE)
    \/ \E u \in SUsers, m \in SUpdateMaps : BatchUpdateTasks(u, m, TRUE)
    \/ \E u \in SUsers : GetAllTasks(u)
    \/ \E u \in SUsers : GetUpcomingTasks(u)
    \/ \E u \in SUsers, id \in TaskIds : GetTaskById(u, id)

\* the store and the schedule analysis, used by two users
ANext ==
    \/ Tick(STimes)
    \/ \E u \in Users, c \in SCreates : CreateTask(u, c, TRUE)
    \/ \E u \in Users, id \in TaskIds, up \in SUpdates : UpdateTask(u, id, up, TRUE)
    \/ \E u \in Users, id \in TaskIds : DeleteTask(u, id, TRUE)
    \/ \E u \in Users, d \in Descriptions : AnalyzeSchedule(u, d)

\* the keys and values the caches alone are used with
CQueryKeys == {GetQueryCacheKey(m, "u1") : m \in Methods}
CAnalysisKeys == {<<d, 1>> : d \in Descriptions}
CValues == {<<>>, <<ExistingDict(NewTask(TaskCreate(5, NoRule), 1, 0))>>}

\* a call of TaskService._set_query_cache
QueryCacheSet(key, v) ==
    /\ qcache' = SetQueryCache(qcache, key, v, now)
    /\ last' = "set"
    /\ UNCHANGED <<now, file, fdc, ucache, acache, nextTaskId, createdBy, saved>>
    /\ UNCHANGED nons

\* a call of TaskService._get_query_cache
QueryCacheGet(key) ==
    /\ qcache' = QueryCacheAfterGet(qcache, key, now)
    /\ last' = IF QueryHit(qcache, key, now) THEN "hit" ELSE "miss"
    /\ UNCHANGED <<now, file, fdc, ucache, acache, nextTaskId, createdBy, saved>>
    /\ UNCHANGED nons

\* a call of DeepSeekService._set_cache_result
CacheResultSet(key, v) ==
    /\ acache' = SetCacheResult(acache, key, v, now)
    /\ last' = "set"
    /\ UNCHANGED <<now, file, fdc, ucache, qcache, nextTaskId, createdBy, saved>>
    /\ UNCHANGED nons

\* a call of DeepSeekService._get_cached_result
CacheResultGet(key) ==
    /\ acache' = CacheAfterGet(acache, key, now)
    /\ last' = IF CachedResultHit(acache, key, now) THEN "hit" ELSE "miss"
    /\ UNCHANGED <<now, file, fdc, ucache, qcache, nextTaskId, createdBy, saved>>
    /\ UNCHANGED nons

\* the requests of the two users of the shared store
ICreates == {TaskCreate(5, NoRule)}
IUpdates == {TaskUpdate("b", NoTime)}

\* the operations of TaskService that change the tasks, issued with user_id
IssuedWith(user_id) ==
    \/ \E c \in ICreates, ok \in BOOLEAN : CreateTask(user_id, c, ok)
    \/ \E c \in ICreates : BatchCreateTasks(user_id, <<c>>, TRUE)
    \/ \E id \in TaskIds, up \in IUpdates, ok \in BOOLEAN : UpdateTask(user_id, id, up, ok)
    \/ \E id \in TaskIds, ok \in BOOLEAN : DeleteTask(user_id, id, ok)
    \/ \E id \in TaskIds : BatchDeleteTasks(user_id, {id}, TRUE)
    \/ \E id \in TaskIds, up \in IUpdates : BatchUpdateTasks(user_id, [i \in {id} |-> up], TRUE)

\* one store used by two users, a write succeeding or raising
INext ==
    \/ Tick(STimes)
    \/ \E u \in Users : IssuedWith(u)
    \/ \E u \in Users : GetAllTasks(u)
    \/ \E u \in Users, id \in TaskIds : GetTaskById(u, id)

\* the two caches used on their own
CNext ==
    \/ Tick(CTimes)
    \/ \E k \in CQueryKeys, v \in CValues : QueryCacheSet(k, v)
    \/ \E k \in CQueryKeys : QueryCacheGet(k)
    \/ \E k \in CAnalysisKeys, v \in CValues : CacheResultSet(k, v)
    \/ \E k \in CAnalysisKeys : CacheResultGet(k)

Init == QInit /\ RIdle /\ KIdle /\ SInit /\ TInit /\ PIdle /\ JIdle /\ XIdle /\ IIdle /\ OIdle

Next ==
    \/ Start
    \/ Stop
    \/ StopReturn
    \/ \E k \in OpKinds : SubmitTask(k)
    \/ QueuePut
    \/ \E w \in WorkerIds : WorkerBegin(w)
    \/ \E w \in WorkerIds : WorkerCancelled(w)
    \/ \E w \in WorkerIds : WorkerTimeout(w)
    \/ \E w \in WorkerIds, out \in Outcomes : WorkerGet(w, out)
    \/ \E w \in WorkerIds, out \in Outcomes : OpFinish(w, out)
    \/ \E w \in WorkerIds : OpCancelled(w)

Spec == Init /\ [][Next]_vars

\* the task store used from a fresh TaskService
SpecStore == Init /\ [][SNext]_vars

\* the schedule analysis of a fresh DeepSeekService over the task store
SpecAnalyze == Init /\ [][ANext]_vars

\* the query cache and the cache of DeepSeekService, set and read directly
SpecCache == Init /\ [][CNext]_vars

\* one TaskService shared by two users
SpecIsolation == Init /\ [][INext]_vars

(***************************************************************************)
(* Two TaskService objects on one data file (routes/tasks.py and           *)
(* routes/schedule.py each construct one): the first one is the store      *)
(* above, the second one has its own file cache.                           *)
(***************************************************************************)
\* _load_data of the second instance, lines 57-60
FileCacheValid2 == fdc2.set /\ now - fdc2.ts < file_cache_ttl

\* _load_data of the second instance: the object it returns ...
LoadData2 == IF FileCacheValid2 THEN fdc2.data ELSE file

\* ... and the file cache it leaves (lines 67-69)
FileCacheAfterLoad2 ==
    IF FileCacheValid2 THEN fdc2 ELSE [set |-> TRUE, data |-> file, ts |-> now]

\* _save_data of the second instance, the write succeeding: the file is
\* written and the caches of this instance are emptied (those of the first
\* instance are not its to empty)
SaveData2(data) ==
    /\ file' = data
    /\ fdc2' = NoFileCache
    /\ saved' = "ok"
    /\ last' = "saved"
    /\ UNCHANGED <<fdc, ucache, qcache>>

\* get_task_by_id through the second instance
GetTaskById2(user_id, task_id) ==
    /\ fdc2' = FileCacheAfterLoad2
    /\ last' = "read"
    /\ UNCHANGED <<now, file, fdc, ucache, qcache, acache, nextTaskId, createdBy, saved, via2>>
    /\ UNCHANGED <<qvars, rvars, kvars, tvars, pvars, jvars, xvars, ovars>>

\* create_task through the second instance
CreateTask2(user_id, task_create) ==
    LET data == LoadData2
        dicts == CreatedDicts(task_create, nextTaskId, now)
    IN /\ nextTaskId + Len(dicts) - 1 <= MaxTasks
       /\ SaveData2(WithTasks(data, user_id, TasksOf(data, user_id) \o dicts))
       /\ nextTaskId' = nextTaskId + Len(dicts)
       /\ createdBy' = [id \in 1..MaxTasks |->
                           IF id \in nextTaskId..(nextTaskId + Len(dicts) - 1)
                           THEN user_id ELSE createdBy[id]]
       /\ via2' = via2 \cup nextTaskId..(nextTaskId + Len(dicts) - 1)
       /\ UNCHANGED <<now, acache>>
       /\ UNCHANGED <<qvars, rvars, kvars, tvars, pvars, jvars, xvars, ovars>>

\* update_task through the second instance
UpdateTask2(user_id, task_id, task_update) ==
    LET data == LoadData2
        list == TasksOf(data, user_id)
        i == FirstIndex(list, task_id)
    IN /\ IF user_id \notin data.users \/ i = 0
          THEN /\ fdc2' = FileCacheAfterLoad2
               /\ last' = "unsaved"
               /\ UNCHANGED <<file, fdc, ucache, qcache, saved>>
          ELSE SaveData2(WithTasks(data, user_id,
                                   [list EXCEPT ![i] = ApplyUpdate(list[i], task_update, now)]))
       /\ UNCHANGED <<now, acache, nextTaskId, createdBy, via2>>
       /\ UNCHANGED <<qvars, rvars, kvars, tvars, pvars, jvars, xvars, ovars>>

\* delete_task through the second instance
DeleteTask2(user_id, task_id) ==
    LET data == LoadData2
        list == TasksOf(data, user_id)
        i == FirstIndex(list, task_id)
    IN /\ IF user_id \notin data.users \/ i = 0
          THEN /\ fdc2' = FileCacheAfterLoad2
               /\ last' = "unsaved"
               /\ UNCHANGED <<file, fdc, ucache, qcache, saved>>
          ELSE SaveData2(WithTasks(data, user_id, RemoveAt(list, i)))
       /\ UNCHANGED <<now, acache, nextTaskId, createdBy, via2>>
       /\ UNCHANGED <<qvars, rvars, kvars, tvars, pvars, jvars, xvars, ovars>>

\* one user working through both instances, every write succeeding
TwoNext ==
    \/ Tick(STimes)
    \/ \E u \in SUsers, c \in ICreates : CreateTask(u, c, TRUE)
    \/ \E u \in SUsers, id \in TaskIds, up \in IUpdates : UpdateTask(u, id, up, TRUE)
    \/ \E u \in SUsers, id \in TaskIds : DeleteTask(u, id, TRUE)
    \/ \E u \in SUsers, id \in TaskIds : GetTaskById(u, id)
    \/ \E u \in SUsers, c \in ICreates : CreateTask2(u, c)
    \/ \E u \in SUsers, id \in TaskIds, up \in IUpdates : UpdateTask2(u, id, up)
    \/ \E u \in SUsers, id \in TaskIds : DeleteTask2(u, id)
    \/ \E u \in SUsers, id \in TaskIds : GetTaskById2(u, id)

SpecShared == Init /\ [][TwoNext]_vars

\* TaskUpdate requests with every field: none supplied, the title and the
\* start, and the four other fields
FullUpdate(title, start, end, priority, reminder_type, is_important) ==
    [title |-> title, start |-> start, end |-> end, priority |-> priority,
     reminder_type |-> reminder_type, is_important |-> is_important]

FUpdates ==
    {FullUpdate("None", NoTime, NoTime, "None", "None", <<>>),
     FullUpdate("b", 45, NoTime, "None", "None", <<>>),
     FullUpdate("None", NoTime, 50, "high", "at_time", <<TRUE>>)}

\* a plain task and a daily task with two occurrences
FCreates == {TaskCreate(5, NoRule), TaskCreate(5, RecurrenceRule("daily", 1, <<>>, NoTime, 2))}

\* the store used by a user who creates, updates, deletes and reads single
\* tasks, next to another user who creates and reads; every write succeeds
FNext ==
    \/ Tick(STimes)
    \/ \E u \in SUsers, c \in FCreates : CreateTask(u, c, TRUE)
    \/ \E u \in Users \ SUsers, c \in ICreates : CreateTask(u, c, TRUE)
    \/ \E u \in SUsers, id \in TaskIds, up \in FUpdates : UpdateTask(u, id, up, TRUE)
    \/ \E u \in SUsers, id \in TaskIds : DeleteTask(u, id, TRUE)
    \/ \E u \in Users : GetAllTasks(u)

SpecFrame == Init /\ [][FNext]_vars

(***************************************************************************)
(* Text extraction (DeepSeekService.parse_tasks and _fallback_parse).      *)
(* A text is what the fallback parser reads from it: parts is the number   *)
(* of non-empty parts between the separators, hour and minute the time it  *)
(* names (9:00 when it names none), offset_ok whether the relative day it  *)
(* names can be added to the current date. A text has at least one         *)
(* character (TaskParseRequest).                                           *)
(***************************************************************************)
\* a draft: the title is the part it was made from (0 for the whole text)
Draft(part, hour, minute) == [title |-> part, hour |-> hour, minute |-> minute]

\* datetime.replace(hour=, minute=) raises ValueError outside the clock
ValidClock(hour, minute) == hour \in 0..23 /\ minute \in 0..59

RECURSIVE PartDrafts(_, _)
\* _fallback_parse, lines 633-698: the drafts of the parts 1..i; the part
\* with index i of the loop starts 2 * i hours after the first, at 23 at
\* the latest
PartDrafts(text, i) ==
    IF i = 0 THEN <<>>
    ELSE Append(PartDrafts(text, i - 1),
                Draft(i, IF i = 1 THEN text.hour ELSE Min(23, text.hour + 2 * (i - 1)),
                      text.minute))

\* DeepSeekService._fallback_parse: the try block raises when the relative
\* day or the time of the text is no date; the except block then returns
\* one draft for tomorrow 9:00
FallbackParse(text) ==
    IF ~text.offset_ok \/ ~ValidClock(text.hour, text.minute)
       THEN [raised |-> FALSE, tasks |-> <<Draft(0, 9, 0)>>]
       ELSE IF text.parts = 0
          THEN [raised |-> FALSE, tasks |-> <<Draft(0, text.hour, text.minute)>>]
          ELSE [raised |-> FALSE, tasks |-> PartDrafts(text, text.parts)]

\* the answers of the extraction service: no answer after the retries
\* ("timeout", "connect_error"), a status other than 200 ("status"), a body
\* that is no JSON, has no choices or whose content is no JSON or a JSON
\* number ("bad_body"), a content that is a JSON object or string
\* ("object"), and a content that is a JSON list ("list"), of items that
\* are task objects ("good") or not ("bad")
RaisingKinds == {"timeout", "connect_error", "status", "bad_body"}

Responses ==
    {[kind |-> k, items |-> <<>>] : k \in RaisingKinds \cup {"object"}}
    \cup {[kind |-> "list", items |-> it] :
             it \in UNION {[1..n -> {"good", "bad"}] : n \in 0..MaxItems}}

\* parse_tasks, lines 504-560: the tasks made from the items of the
\* content; an item that raises is skipped, and iterating an object or a
\* string yields items that all raise
ServiceDrafts(resp) ==
    IF resp.kind = "object" THEN <<>>
    ELSE LET good == {i \in 1..Len(resp.items) : resp.items[i] = "good"}
         IN [k \in 1..Cardinality(good) |->
                Draft(CHOOSE i \in good : Cardinality({j \in good : j <= i}) = k, 10, 0)]

\* DeepSeekService.parse_tasks: how the call ends and the cache entry of
\* the text it leaves
ParseTasks(text, cached, resp) ==
    IF cached # "None"
       THEN [raised |-> FALSE, from |-> "cache", tasks |-> cached, cache |-> cached]
    ELSE IF resp.kind \in RaisingKinds
       THEN [raised |-> FallbackParse(text).raised, from |-> "fallback",
             tasks |-> FallbackParse(text).tasks, cache |-> cached]
       ELSE [raised |-> FALSE, from |-> "service", tasks |-> ServiceDrafts(resp),
             cache |-> ServiceDrafts(resp)]

\* the texts: without and with a time, with a time that is no time of the
\* clock, with a relative day that is no date
PTexts ==
    {[parts |-> n, hour |-> h, minute |-> m, offset_ok |-> ok] :
        n \in 0..MaxParts, h \in {9, 22, 25}, m \in {0, 75}, ok \in BOOLEAN}

PInit ==
    /\ pPc = "call"
    /\ pText \in PTexts
    /\ pCached \in {"None", <<>>, <<Draft(1, 10, 0)>>}
    /\ pResp \in Responses
    /\ pOut = 0
    /\ QInit
    /\ RIdle
    /\ KIdle
    /\ SInit
    /\ TInit
    /\ JIdle
    /\ OIdle
    /\ IIdle
    /\ XIdle

\* a call of DeepSeekService.parse_tasks
ParseCall ==
    /\ pPc = "call"
    /\ pOut' = ParseTasks(pText, pCached, pResp)
    /\ pPc' = "done"
    /\ UNCHANGED <<pText, pCached, pResp>>
    /\ UNCHANGED nonp

PNext == ParseCall

SpecParse == PInit /\ [][PNext]_vars

\* a request that carries a rule and leaves is_recurring at its default
TaskCreateUnflagged(start, rule) == [TaskCreate(start, rule) EXCEPT !.is_recurring = FALSE]

\* the requests of the creations: without a rule, and with a rule with and
\* without the recurring flag
ECreates ==
    SCreates \cup {TaskCreateUnflagged(5, RecurrenceRule("daily", 1, <<>>, NoTime, 2))}

\* the creations of one user, with updates and deletions in between
ENext ==
    \/ Tick(STimes)
    \/ \E u \in SUsers, c \in ECreates : CreateTask(u, c, TRUE)
    \/ \E u \in SUsers, c \in ECreates : BatchCreateTasks(u, <<c>>, TRUE)
    \/ \E u \in SUsers, id \in TaskIds, up \in SUpdates : UpdateTask(u, id, up, TRUE)
    \/ \E u \in SUsers, id \in TaskIds : DeleteTask(u, id, TRUE)

\* the creations of TaskService, every write succeeding
SpecExpand == Init /\ [][ENext]_vars

TNext ==
    \/ TokenTick
    \/ \E token \in Tokens : VerifyBegin(token)
    \/ \E p \in tPending, status_code \in Statuses : VerifyResponse(p, status_code)

\* the credential cache under concurrent verifications
SpecToken == Init /\ [][TNext]_vars

\* concurrent verifications of more tokens than the cache may hold, all
\* within one instant
RaceNext ==
    \/ \E token \in RaceTokens : VerifyBegin(token)
    \/ \E p \in tPending, status_code \in Statuses : VerifyResponse(p, status_code)

SpecTokenRace == Init /\ [][RaceNext]_vars

(***************************************************************************)
(* The job table of AsyncTaskQueue read and cleaned while the queue works. *)
(***************************************************************************)
\* completed_at at the cutoff is removed as well
CutoffReached_Inclusive(completed_at, cutoff_time) == completed_at <= cutoff_time

\* cleanup_completed_tasks, line 161: task.completed_at < cutoff_time
CutoffReached(completed_at, cutoff_time) == completed_at < cutoff_time

\* cleanup_completed_tasks, lines 156-162: the ids in tasks_to_remove
TasksToRemove(max_age_hours) ==
    LET cutoff_time == now - max_age_hours * HourSeconds
    IN {j \in DOMAIN tasks :
          /\ tasks[j].status \in {COMPLETED, FAILED}
          /\ tasks[j].completed_at # NoTime
          /\ CutoffReached(tasks[j].completed_at, cutoff_time)}

\* AsyncTaskQueue.cleanup_completed_tasks
CleanupCompletedTasks(max_age_hours) ==
    /\ tasks' = [j \in DOMAIN tasks \ TasksToRemove(max_age_hours) |-> tasks[j]]
    /\ UNCHANGED <<running, putq, queue, running_tasks, workers, wtask, stopPc,
                   gathered, hist, claimedBy, atStop, raisedIn>>
    /\ UNCHANGED nonq

\* the value None as a return value of get_task_status
NoStatus == [none |-> TRUE]

\* get_task_status, lines 134-142: the dict of a job (NoTime for a time that is None)
StatusDict(task_id, task) ==
    [task_id |-> task_id, status |-> task.status, result |-> task.result,
     error |-> task.error, created_at |-> task.created_at,
     started_at |-> task.started_at, completed_at |-> task.completed_at]

\* an id that is not stored gets the dict of a pending job
GetTaskStatus_AlwaysFound(task_id) ==
    StatusDict(task_id, IF task_id \in DOMAIN tasks THEN tasks[task_id] ELSE AsyncTask("async"))

\* AsyncTaskQueue.get_task_status
GetTaskStatus(task_id) ==
    IF task_id \notin DOMAIN tasks THEN NoStatus ELSE StatusDict(task_id, tasks[task_id])

\* a call of AsyncTaskQueue.get_task_status
GetTaskStatusCall(task_id) ==
    /\ jRet' = <<task_id, GetTaskStatus(task_id)>>
    /\ UNCHANGED nonj

\* the ids asked for: those submit_task can return and one it never returns
AskedIds == 1..(MaxJobs + 1)

\* the clock of the job table: on the hour, and one second later
JTimes == {0, HourSeconds, 2 * HourSeconds + 1}

\* the maximal ages of the cleanup, in hours
MaxAges == {1, 2}

\* the queue with coroutine jobs, cleaned at any time
JNext ==
    \/ Tick(JTimes)
    \/ Start
    \/ SubmitTask("async")
    \/ QueuePut
    \/ \E w \in WorkerIds : WorkerBegin(w)
    \/ \E w \in WorkerIds : WorkerGet(w, CHOOSE o \in Outcomes : TRUE)
    \/ \E w \in WorkerIds, out \in Outcomes : OpFinish(w, out)
    \/ \E max_age_hours \in MaxAges : CleanupCompletedTasks(max_age_hours)

SpecJobs == Init /\ [][JNext]_vars

\* the queue with coroutine jobs, read at any time
StatusNext ==
    \/ Start
    \/ SubmitTask("async")
    \/ QueuePut
    \/ \E w \in WorkerIds : WorkerBegin(w)
    \/ \E w \in WorkerIds : WorkerGet(w, CHOOSE o \in Outcomes : TRUE)
    \/ \E w \in WorkerIds, out \in Outcomes : OpFinish(w, out)
    \/ \E task_id \in AskedIds : GetTaskStatusCall(task_id)

SpecStatus == Init /\ [][StatusNext]_vars

(***************************************************************************)
(* The retry wrapper of the extraction requests (deepseek_service.py).     *)
(***************************************************************************)
\* what one client.post can give: a status (with a body that is JSON or
\* not), httpx.TimeoutException, httpx.ConnectError, any other exception
Answers ==
    [kind : {"status"}, code : {200, 201, 400, 404, 429, 500, 503}, json : BOOLEAN]
      \cup [kind : {"timeout", "connect_error", "other_error"}, code : {0}, json : {FALSE}]

\* every retry waits the initial delay
Backoff_Constant(attempt) == retry_delay

\* line 89: self.retry_delay * (2 ** attempt)
Backoff(attempt) == retry_delay * 2 ^ attempt

\* lines 84-101: the delay slept before the next attempt, NoTime when the
\* answer ends the call
DelayAfter(answer, attempt) ==
    IF attempt >= max_retries - 1 THEN NoTime
    ELSE IF answer.kind = "status"
       THEN IF answer.code = 429 THEN Backoff(attempt)
            ELSE IF answer.code # 200 /\ answer.code >= 500 THEN retry_delay
            ELSE NoTime
       ELSE IF answer.kind \in {"timeout", "connect_error"} THEN retry_delay
       ELSE NoTime

\* line 85: return response.json() (which raises for a body that is no JSON)
Returns(answer) == answer.kind = "status" /\ answer.code = 200 /\ answer.json

\* a call of _make_api_request_with_retry
RetryCall ==
    /\ xPc = "idle"
    /\ xPc' = "request"
    /\ UNCHANGED <<xAttempt, xReqs, xSleeps>>
    /\ UNCHANGED nonx

\* one pass of the for loop: the request is answered, and the call returns,
\* raises, or sleeps and goes on with the next attempt
RetryAnswer(answer) ==
    /\ xPc = "request"
    /\ xReqs' = Append(xReqs, answer)
    /\ IF Returns(answer)
          THEN xPc' = "returned" /\ UNCHANGED <<xAttempt, xSleeps>>
          ELSE IF answer.kind = "status" /\ answer.code = 200
          THEN xPc' = "raised" /\ UNCHANGED <<xAttempt, xSleeps>>
          ELSE IF DelayAfter(answer, xAttempt) # NoTime
          THEN /\ xSleeps' = Append(xSleeps, DelayAfter(answer, xAttempt))
               /\ xAttempt' = xAttempt + 1
               /\ xPc' = "request"
          ELSE xPc' = "raised" /\ UNCHANGED <<xAttempt, xSleeps>>
    /\ UNCHANGED nonx

XNext ==
    \/ RetryCall
    \/ \E answer \in Answers : RetryAnswer(answer)

SpecRetry == Init /\ [][XNext]_vars

(***************************************************************************)
(* The pipeline of the asynchronous parse endpoint as a job of the queue.  *)
(***************************************************************************)
\* what parse_tasks can return to the pipeline
ParsedResults == {ParseTasks(text, "None", resp) : text \in PTexts, resp \in Responses}

\* _process_task_parsing, lines 45-52: an exception leaves the try block when
\* parse_tasks raises or when a create_task cannot save (_save_data re-raises)
PipelineException(parsed, save_ok) ==
    parsed.raised \/ (Len(parsed.tasks) > 0 /\ ~save_ok)

\* _process_task_parsing: how the coroutine ends for the worker; the except
\* clause of lines 59-64 returns a dict for every exception
ProcessTaskParsing(parsed, save_ok) ==
    IF PipelineException(parsed, save_ok)
    THEN [raises |-> FALSE, val |-> "success_false"]
    ELSE [raises |-> FALSE, val |-> "success_true"]

\* the started queue with the jobs that parse_tasks_async submits
PipeNext ==
    \/ Start
    \/ SubmitTask("async")
    \/ QueuePut
    \/ \E w \in WorkerIds : WorkerBegin(w)
    \/ \E w \in WorkerIds : WorkerGet(w, CHOOSE o \in Outcomes : TRUE)
    \/ \E w \in WorkerIds, parsed \in ParsedResults, save_ok \in BOOLEAN :
          OpFinish(w, ProcessTaskParsing(parsed, save_ok))

SpecPipeline == Init /\ [][PipeNext]_vars

(***************************************************************************)
(* The queue that is started and never stopped, with the fairness of the   *)
(* asyncio event loop (every ready callback runs) and operations that      *)
(* eventually return or raise.                                             *)
(***************************************************************************)
LiveNext ==
    \/ Start
    \/ \E k \in OpKinds : SubmitTask(k)
    \/ QueuePut
    \/ \E w \in WorkerIds : WorkerBegin(w)
    \/ \E w \in WorkerIds, out \in Outcomes : WorkerGet(w, out)
    \/ \E w \in WorkerIds, out \in Outcomes : OpFinish(w, out)

LiveSpec ==
    /\ Init
    /\ [][LiveNext]_vars
    /\ WF_vars(QueuePut)
    /\ \A w \in WorkerIds :
          /\ WF_vars(WorkerBegin(w))
          /\ WF_vars(\E out \in Outcomes : WorkerGet(w, out))
          /\ WF_vars(\E out \in Outcomes : OpFinish(w, out))

Finished(j) == j \in DOMAIN tasks /\ tasks[j].status \in {COMPLETED, FAILED}

\* C1: in a started, never stopped queue every submitted job eventually
\* reaches completed or failed.
C1_EveryJobFinishes ==
    \A j \in JobIds : (j \in DOMAIN tasks /\ running) ~> Finished(j)

\* all MaxJobs jobs were submitted and all of them are finished
C1_Witness ==
    /\ running
    /\ Len(tasks) = MaxJobs
    /\ \A j \in DOMAIN tasks : Finished(j)

\* C2: a job that is processing when stop() is called is completed or failed
\* when stop() has returned, and its worker exits only after finishing it.
C2_StopWaitsForInFlight ==
    /\ stopPc = "idle" => \A j \in atStop : Finished(j)
    /\ \A w \in DOMAIN wtask :
          (wtask[w].pc = "done" /\ wtask[w].job # 0) => Finished(wtask[w].job)

\* C3: in the step in which an operation raises, its job becomes failed with
\* the exception text as error, and the worker goes back to queue.get()
\* (the loop goes on while the queue is running).
C3_FailureContained ==
    [][\A w \in DOMAIN wtask : \A j \in DOMAIN tasks :
          (j \in raisedIn'[w] /\ j \notin raisedIn[w]) =>
             /\ tasks'[j].status = FAILED
             /\ tasks'[j].error = "err"
             /\ tasks'[j].result = "None"
             /\ running => wtask'[w].pc = "get"]_vars

\* a worker in which an operation raised has later taken and finished
\* another job
C3_Witness ==
    \E w \in DOMAIN wtask : \E j1 \in raisedIn[w] : \E j2 \in DOMAIN tasks :
        /\ j2 > j1
        /\ w \in claimedBy[j2]
        /\ Finished(j2)

StatusPaths ==
    {<<PENDING>>, <<PENDING, PROCESSING>>, <<PENDING, PROCESSING, COMPLETED>>,
     <<PENDING, PROCESSING, FAILED>>}

\* C4: the statuses assigned to a job form a prefix of pending, processing,
\* completed|failed, and a job is taken from the queue by at most one worker
\* (exactly one once it left pending).
C4_StatusPath ==
    \A j \in DOMAIN tasks :
        /\ hist[j] \in StatusPaths
        /\ tasks[j].status = hist[j][Len(hist[j])]
        /\ Cardinality(claimedBy[j]) <= 1
        /\ tasks[j].status # PENDING => Cardinality(claimedBy[j]) = 1

\* two workers are processing different jobs at the same time, a third job
\* is finished
C4_Witness ==
    /\ \E w1, w2 \in DOMAIN wtask :
          /\ w1 # w2
          /\ wtask[w1].pc = "op"
          /\ wtask[w2].pc = "op"
    /\ \E j \in DOMAIN tasks : Finished(j)
rRule == rParent.recurrence_rule
Occurrence(i) == CalculateNextOccurrence(rParent.start, rRule, i)

StopsAt(j) ==
    \/ rRule.end_date # NoTime /\ Occurrence(j) > rRule.end_date
    \/ rRule.count # 0 /\ j >= rRule.count

\* C10: index i is emitted exactly when no index j <= i meets a stop test;
\* the instances are the occurrences 1..n in order, at most max_instances of
\* them and at most count - 1 with a count.
C10_EmittedIndices ==
    rPc = "done" =>
        LET emitted == {i \in 1..rMax : \A j \in 1..i : ~StopsAt(j)} IN
        /\ Len(rOut) = Cardinality(emitted)
        /\ emitted = 1..Len(rOut)
        /\ \A k \in 1..Len(rOut) : rOut[k].start = Occurrence(k)
        /\ Len(rOut) <= rMax
        /\ rRule.count # 0 => Len(rOut) <= rRule.count - 1

\* both limits are set and the end date is the tighter one
C10_Witness ==
    /\ rPc = "done"
    /\ rRule.end_date # NoTime
    /\ rRule.count # 0
    /\ Len(rOut) > 0
    /\ Len(rOut) < rRule.count - 1
    /\ Len(rOut) < rMax

\* both limits are set and the count is the tighter one
C10_WitnessCount ==
    /\ rPc = "done"
    /\ rRule.end_date # NoTime
    /\ rRule.count # 0
    /\ Len(rOut) = rRule.count - 1
    /\ Len(rOut) < rMax
    /\ Occurrence(Len(rOut) + 1) <= rRule.end_date
Overlaps(s, t) == s.start < t.end /\ s.end > t.start

\* C8: no returned slot overlaps an existing task, on every return path.
C8_NoOverlap ==
    kPc = "done" =>
        \A k \in 1..Len(kOut) : \A n \in 1..Len(kTasks) :
            kTasks[n].end # NoTime => ~Overlaps(kOut[k], kTasks[n])

\* the task list of a user as the file has it, in the order get_all_tasks returns
Stored(u) == SortByStart(TasksOf(file, u))

\* C5: after a mutation of the store has returned successfully, the file
\* cache, the per-user cache and the query cache are empty; and as long as
\* no later write has failed, no entry of the three caches differs from what
\* the file holds, and get_all_tasks and get_upcoming_tasks return the task
\* list of the file (get_upcoming_tasks its window, taken when it was computed).
C5_NoStaleRead ==
    saved = "ok" =>
        /\ last = "saved" =>
              /\ fdc = NoFileCache
              /\ \A u \in Users : ucache[u] = NoEntry
              /\ \A k \in QueryKeys : qcache[k] = NoEntry
        /\ fdc.set => fdc.data = file
        /\ \A u \in Users :
              LET all == GetQueryCacheKey("get_all_tasks", u)
                  upc == GetQueryCacheKey("get_upcoming_tasks", u)
              IN /\ ucache[u].set => ucache[u].val = Stored(u)
                 /\ qcache[all].set => qcache[all].val = Stored(u)
                 /\ qcache[upc].set => qcache[upc].val = UpcomingOf(Stored(u), qcache[upc].ts)
                 /\ GetAll(qcache, u).val = Stored(u)
                 /\ GetUpcoming(u).val =
                       UpcomingOf(Stored(u), IF QueryHit(qcache, upc, now)
                                             THEN qcache[upc].ts ELSE now)

\* a task was updated at a later instant than it was created, and the
\* updated task has been read back through get_all_tasks and get_upcoming_tasks
C5_Witness ==
    /\ saved = "ok"
    /\ last = "read"
    /\ \E u \in Users :
          /\ ucache[u].set
          /\ qcache[GetQueryCacheKey("get_all_tasks", u)].set
          /\ qcache[GetQueryCacheKey("get_upcoming_tasks", u)].set
          /\ \E i \in 1..Len(ucache[u].val) :
                /\ ucache[u].val[i].title = "b"
                /\ ucache[u].val[i].updated_at > ucache[u].val[i].created_at

\* C6: after a task was created, updated or deleted, analyze_schedule called
\* with the tasks the user has does not return a cached recommendation that
\* was computed against another task list.
C6_NoStaleAnalysis ==
    last = "saved" =>
        \A u \in Users, d \in Descriptions :
            LET r == Analyze(d, ExistingTasks(u))
            IN r.hit => r.val = ExistingTasks(u)

\* C7: while the age of an entry is below the ttl a get returns its value;
\* once the age is the ttl or more a get is a miss and removes the entry
C7_TtlBoundary ==
    /\ \A k \in QueryKeys :
          qcache[k].set =>
             IF now - qcache[k].ts < query_cache_ttl
             THEN QueryHit(qcache, k, now)
             ELSE ~QueryHit(qcache, k, now) /\ QueryCacheAfterGet(qcache, k, now)[k] = NoEntry
    /\ \A k \in AnalysisKeys :
          acache[k].set =>
             IF now - acache[k].ts < text_cache_ttl
             THEN CachedResultHit(acache, k, now)
             ELSE ~CachedResultHit(acache, k, now) /\ CacheAfterGet(acache, k, now)[k] = NoEntry

\* C12: jobs enter processing in the order of their submission: a job that
\* has left pending has no earlier submitted job that is still pending
C12_StartsInSubmissionOrder ==
    \A a, b \in DOMAIN tasks :
        (a < b /\ tasks[b].status # PENDING) => tasks[a].status # PENDING

\* with two workers the later job has completed while the earlier one is
\* still processing
C12_Witness ==
    \E a, b \in DOMAIN tasks :
        a < b /\ tasks[a].status = PROCESSING /\ tasks[b].status = COMPLETED

\* C13: the number of jobs whose status is processing never exceeds the
\* pool size max_concurrent_tasks
C13_ProcessingWithinPool ==
    Cardinality({j \in DOMAIN tasks : tasks[j].status = PROCESSING}) <= max_concurrent_tasks

\* C11: an operation issued with one user id changes neither what
\* get_all_tasks nor what get_task_by_id returns for another user, and
\* get_all_tasks(u) returns only tasks that were created with user id u
C11_UserIsolation ==
    /\ [][\A u \in Users :
             IssuedWith(u) =>
                 \A u2 \in Users \ {u} :
                     /\ GetAll(qcache, u2).val' = GetAll(qcache, u2).val
                     /\ \A id \in TaskIds : GetById(u2, id)' = GetById(u2, id)]_vars
    /\ [](\A u \in Users :
             LET list == GetAll(qcache, u).val
             IN \A i \in 1..Len(list) : createdBy[list[i].id] = u)

\* the range of a sequence
Range(seq) == {seq[i] : i \in 1..Len(seq)}

\* the candidate slot of a scanned day and a recommended hour conflicts with
\* an existing task
CandidateConflicts(day_offset, hour) ==
    LET start_time == SlotStart(kNow, day_offset, hour)
    IN \E n \in 1..Len(kTasks) :
          /\ kTasks[n].end # NoTime
          /\ Overlaps([start |-> start_time, end |-> start_time + kWork.duration], kTasks[n])

EveryCandidateConflicts ==
    \A d \in Range(ScannedDays(kNow)), h \in Range(RecommendedHours(kWork.kind)) :
        CandidateConflicts(d, h)

\* C14: when every candidate slot of the scan conflicts with an existing
\* task, exactly one slot is returned, at the default hour (09:00) of the
\* following day
C14_FallbackSlot ==
    (kPc = "done" /\ EveryCandidateConflicts) =>
        /\ Len(kOut) = 1
        /\ kOut[1].start = SlotStart(kNow, 1, 9)

\* the scenario: 2 hours of work, deadline tomorrow 18:00, one existing task
\* tomorrow 09:00-10:00
C15_Scenario ==
    /\ kPc = "done"
    /\ kWork.duration = 2 * HourSeconds
    /\ kWork.deadline = SlotStart(kNow, 1, 18)
    /\ kTasks = <<[start |-> SlotStart(kNow, 1, 9), end |-> SlotStart(kNow, 1, 10)]>>

\* C15: in the scenario no returned slot starts tomorrow at 09:00, and a
\* free candidate slot of tomorrow that ends by the deadline scores strictly
\* higher than the slot at the same hour 5 days out
C15_DeadlineBonus ==
    C15_Scenario =>
        /\ \A k \in 1..Len(kOut) : kOut[k].start # SlotStart(kNow, 1, 9)
        /\ \A h \in Range(RecommendedHours(kWork.kind)) :
              LET near == MakeSlot(kWork, h, SlotStart(kNow, 1, h))
                  far == MakeSlot(kWork, h, SlotStart(kNow, 5, h))
              IN (~CandidateConflicts(1, h) /\ near.end <= kWork.deadline) =>
                     near.score > far.score

\* the call has returned for a weekly rule with one day of the week
WeeklyOnDay == rPc = "done" /\ rRule.frequency = "weekly" /\ Len(rRule.days_of_week) = 1

\* C16: with a weekly rule on the single weekday d every instance starts on
\* weekday d at the time of day of the definition, the first one on the next
\* weekday d strictly after the start (a full week later when the start is on
\* d), and consecutive instances are interval weeks apart.
C16_WeeklyOnWeekday ==
    WeeklyOnDay =>
        LET d == rRule.days_of_week[1] IN
        /\ \A k \in 1..Len(rOut) :
              /\ Weekday(rOut[k].start) = d
              /\ TimeOfDay(rOut[k].start) = TimeOfDay(rParent.start)
        /\ Len(rOut) >= 1 =>
              /\ \E n \in 1..7 : rOut[1].start = rParent.start + n * DaySeconds
              /\ Weekday(rParent.start) = d => rOut[1].start = rParent.start + 7 * DaySeconds
        /\ \A k \in 1..(Len(rOut) - 1) :
              rOut[k + 1].start - rOut[k].start = 7 * rRule.interval * DaySeconds

\* the definition starts on the weekday of its rule, every second week
C16_Witness ==
    /\ WeeklyOnDay
    /\ Weekday(rParent.start) = rRule.days_of_week[1]
    /\ rRule.interval = 2
    /\ Len(rOut) >= 2

\* the months from year 0 to the month of dt
MonthIndex(dt) == YearOf(dt) * 12 + (MonthOf(dt) - 1)

\* C17: the i-th instance of a monthly rule lies interval * i months after
\* the month of the start, on the day of the start or on the last day of a
\* shorter month; a yearly rule keeps month and day, and 29 February becomes
\* 28 February in a year that is not a leap year.
C17_MonthClamp ==
    rPc = "done" =>
        \A i \in 1..Len(rOut) :
            LET t == rOut[i].start IN
            /\ rRule.frequency = "monthly" =>
                  /\ MonthIndex(t) = MonthIndex(rParent.start) + rRule.interval * i
                  /\ DayOf(t) = Min(DayOf(rParent.start), DaysInMonth(YearOf(t), MonthOf(t)))
                  /\ TimeOfDay(t) = TimeOfDay(rParent.start)
            /\ rRule.frequency = "yearly" =>
                  /\ YearOf(t) = YearOf(rParent.start) + rRule.interval * i
                  /\ MonthOf(t) = MonthOf(rParent.start)
                  /\ DayOf(t) = Min(DayOf(rParent.start), DaysInMonth(YearOf(t), MonthOf(t)))
                  /\ TimeOfDay(t) = TimeOfDay(rParent.start)

\* a monthly instance on the last day of a month shorter than the day of the
\* start
C17_Witness ==
    /\ rPc = "done"
    /\ rRule.frequency = "monthly"
    /\ \E i \in 1..Len(rOut) :
          /\ DayOf(rOut[i].start) < DayOf(rParent.start)
          /\ DayOf(rOut[i].start) = DaysInMonth(YearOf(rOut[i].start), MonthOf(rOut[i].start))

\* a yearly instance on 28 February for a start on 29 February
C17_WitnessLeapDay ==
    /\ rPc = "done"
    /\ rRule.frequency = "yearly"
    /\ MonthOf(rParent.start) = 2 /\ DayOf(rParent.start) = 29
    /\ \E i \in 1..Len(rOut) : MonthOf(rOut[i].start) = 2 /\ DayOf(rOut[i].start) = 28

\* C18: when the definition has an end every instance has an end and lasts as
\* long as the definition, also when the definition has length zero; when the
\* definition has no end no instance has one.
C18_DurationPreserved ==
    rPc = "done" =>
        \A k \in 1..Len(rOut) :
            IF rParent.end # NoTime
               THEN /\ rOut[k].end # NoTime
                    /\ rOut[k].end - rOut[k].start = rParent.end - rParent.start
               ELSE rOut[k].end = NoTime

\* C19: every instance has the title, the priority, the reminder type and
\* the importance flag of its definition.
C19_InheritsSettings ==
    rPc = "done" =>
        \A k \in 1..Len(rOut) :
            /\ rOut[k].title = rParent.title
            /\ rOut[k].priority = rParent.priority
            /\ rOut[k].reminder_type = rParent.reminder_type
            /\ rOut[k].is_important = rParent.is_important

\* the tasks emitted by the call have no rule, are not recurring and name
\* the definition as their parent
EmittedAsInstances ==
    rPc = "done" =>
        \A k \in 1..Len(rOut) :
            /\ rOut[k].recurrence_rule = NoRule
            /\ rOut[k].is_recurring = FALSE
            /\ rOut[k].parent_task_id = rParent.id

\* the dict is an instance of the definition with the id
InstanceOf(t, definition_id) ==
    /\ t.recurrence_rule = NoRule
    /\ t.is_recurring = FALSE
    /\ t.parent_task_id = definition_id

\* a creation with one request, by create_task or by batch_create_tasks
CreatesOne(user_id) ==
    \E c \in SCreates : CreateTask(user_id, c, TRUE) \/ BatchCreateTasks(user_id, <<c>>, TRUE)

\* C20: a creation stores the definition under the first fresh id and every
\* other task it stores is an instance of it: no rule, not recurring, the
\* parent id of the definition; and no operation changes the rule, the
\* recurring flag or the parent id of a task that stays stored.
C20_InstancesStayInstances ==
    [][\A u \in Users :
          LET before == TasksOf(file, u)
              after == TasksOf(file, u)'
          IN \A j \in 1..Len(after) :
                LET t == after[j]
                    i == FirstIndex(before, t.id)
                IN /\ i # 0 =>
                        /\ t.recurrence_rule = before[i].recurrence_rule
                        /\ t.is_recurring = before[i].is_recurring
                        /\ t.parent_task_id = before[i].parent_task_id
                   /\ (CreatesOne(u) /\ t.id > nextTaskId) => InstanceOf(t, nextTaskId)]_vars

\* an instance is stored with a changed title and its definition is deleted
C20_Witness ==
    \E u \in Users :
        \E j \in 1..Len(TasksOf(file, u)) :
            LET t == TasksOf(file, u)[j]
            IN /\ t.parent_task_id # 0
               /\ InstanceOf(t, t.parent_task_id)
               /\ t.title = "b"
               /\ FirstIndex(TasksOf(file, u), t.parent_task_id) = 0

\* C21: after a creation whose request carries a recurrence rule the stored
\* tasks of the user contain the definition and every instance of its
\* expansion with the default bound.
C21_ExpansionStored ==
    [][\A u \in SUsers, c \in ECreates :
          ((CreateTask(u, c, TRUE) \/ BatchCreateTasks(u, <<c>>, TRUE))
              /\ c.recurrence_rule # NoRule) =>
             LET definition == NewTask(c, nextTaskId, now)
                 expansion == GenerateRecurringTasks(definition, default_max_instances,
                                                     nextTaskId + 1)
                 stored == Range(TasksOf(file, u)')
             IN /\ definition \in stored
                /\ \A k \in 1..Len(expansion) : expansion[k] \in stored]_vars

\* C22: the returned slots are in the order of non-increasing score and
\* every score is an integer from 1 to 10, also when the bonuses add up to
\* more than 10.
C22_SortedAndClamped ==
    kPc = "done" =>
        /\ \A k \in 1..Len(kOut) : kOut[k].score \in 1..10
        /\ \A k \in 1..(Len(kOut) - 1) : kOut[k].score >= kOut[k + 1].score

\* a returned slot whose bonuses add up to more than 10, followed by slots
\* of a lower score
C22_Witness ==
    /\ kPc = "done"
    /\ Len(kOut) >= 2
    /\ kOut[1].score = 10
    /\ kOut[Len(kOut)].score < 10
    /\ SlotScore(kWork, TimeOfDay(kOut[1].start) \div HourSeconds, kOut[1].start) > 10

\* the slots of the candidates of the scan that overlap no existing task
FreeCandidates ==
    {MakeSlot(kWork, h, SlotStart(kNow, d, h)) :
        <<d, h>> \in {c \in Range(ScannedDays(kNow)) \X Range(RecommendedHours(kWork.kind)) :
                         ~CandidateConflicts(c[1], c[2])}}

\* the order of the recommendation: the higher score first and, with equal
\* scores, the earlier start first
Better(a, b) == a.score > b.score \/ (a.score = b.score /\ a.start < b.start)

\* C23: at most 5 slots are returned, and they are the 5 best of the
\* candidates that overlap no existing task, in the order of score
\* descending and, among equal scores, of the earlier start.
C23_TopFive ==
    kPc = "done" =>
        /\ Len(kOut) = Min(5, Cardinality(FreeCandidates))
        /\ Range(kOut) \subseteq FreeCandidates
        /\ \A k \in 1..(Len(kOut) - 1) : Better(kOut[k], kOut[k + 1])
        /\ \A a \in Range(kOut), b \in FreeCandidates \ Range(kOut) : Better(a, b)

\* the entries of the dict that are not expired and are gone after the step:
\* the entries evicted for size
EvictedForSize ==
    {token_cache[i] : i \in {j \in 1..Len(token_cache) :
                                /\ tNow - token_cache[j].ts < CACHE_TTL
                                /\ token_cache[j].key \notin Keys(token_cache')}}

\* a call of verify_supabase_token in which clean_expired_cache is called;
\* up to the awaited request the call changes nothing in the dict that
\* clean_expired_cache has left (no expired entry is left to delete)
CleanupCalled ==
    /\ Len(token_cache) > CleanThreshold
    /\ \E token \in Tokens : VerifyBegin(token)

\* C24: after clean_expired_cache no entry of the credential cache has an
\* age of CACHE_TTL or more, the cache has at most the maximal number of
\* entries, and every entry evicted for size was written to the cache no
\* later than every entry that is kept.
C24_CleanedCache ==
    [][CleanupCalled =>
          /\ \A i \in 1..Len(token_cache') : tNow - token_cache'[i].ts < CACHE_TTL
          /\ Len(token_cache') <= MaxCacheSize
          /\ \A e \in EvictedForSize : \A i \in 1..Len(token_cache') :
                 tInserted[e.key] <= tInserted[token_cache'[i].key]]_vars

\* the call to the extraction service has failed: no usable answer, or a
\* content that is no list of task objects
ExtractionFailed ==
    \/ pResp.kind \in RaisingKinds \cup {"object"}
    \/ pResp.kind = "list" /\ pResp.items # <<>>
          /\ \A i \in 1..Len(pResp.items) : pResp.items[i] = "bad"

\* C25: when the call to the extraction service fails parse_tasks does not
\* raise and returns the drafts of the fallback parser, at least one.
C25_FallbackOnFailure ==
    (pPc = "done" /\ pCached = "None" /\ ExtractionFailed) =>
        /\ ~pOut.raised
        /\ pOut.tasks = FallbackParse(pText).tasks
        /\ Len(pOut.tasks) >= 1

\* C28: with a daily rule of interval k the i-th instance starts i * k days
\* after the start of the definition, for every instance up to the first
\* stop condition.
C28_DailyInterval ==
    (rPc = "done" /\ rRule.frequency = "daily") =>
        \A i \in 1..Len(rOut) :
            rOut[i].start = rParent.start + i * rRule.interval * DaySeconds

\* several instances of a daily rule with the interval 2
C28_Witness ==
    /\ rPc = "done"
    /\ rRule.frequency = "daily"
    /\ rRule.interval = 2
    /\ Len(rOut) >= 2

\* C26: submit_task returns an id that no earlier call returned and does not
\* run the operation; get_task_status of that id right after the call gives
\* status pending, created_at the time of the call, and started_at,
\* completed_at, result and error all None; the other jobs are as before.
C26_SubmittedIsPending ==
    [][\A kind \in OpKinds, id \in {FreshJobId} :
          (Len(hist') # Len(hist) /\ SubmitTask(kind)) =>
             /\ id \notin DOMAIN tasks
             /\ id \notin 1..Len(hist)
             /\ GetTaskStatus(id)' =
                  [task_id |-> id, status |-> PENDING, result |-> "None",
                   error |-> "None", created_at |-> now, started_at |-> NoTime,
                   completed_at |-> NoTime]
             /\ hist'[id] = <<PENDING>>
             /\ claimedBy'[id] = {}
             /\ running_tasks' = running_tasks
             /\ wtask' = wtask
             /\ \A j \in DOMAIN tasks : tasks'[j] = tasks[j]]_vars

\* a job submitted after another one was cleaned away, still pending
C26_Witness ==
    \E id \in DOMAIN tasks :
        /\ GetTaskStatus(id).status = PENDING
        /\ hist[id] = <<PENDING>>
        /\ tasks[id].created_at > 0
        /\ \E j \in 1..Len(hist) : j < id /\ j \notin DOMAIN tasks

\* the jobs that are finished: completed or failed with a completion time
FinishedJob(j) ==
    tasks[j].status \in {COMPLETED, FAILED} /\ tasks[j].completed_at # NoTime

\* C27: cleanup_completed_tasks(max_age_hours) removes exactly the jobs that
\* are completed or failed and whose completed_at is more than max_age_hours
\* before the call; every pending or processing job and every finished job
\* that is not older stays, with every field as it was.
C27_CleanupExact ==
    [][\A max_age_hours \in MaxAges :
          (hist' = hist /\ tasks' # tasks /\ CleanupCompletedTasks(max_age_hours)) =>
             /\ \A j \in DOMAIN tasks :
                   (j \notin DOMAIN tasks') <=>
                      (FinishedJob(j) /\ now - tasks[j].completed_at > max_age_hours * HourSeconds)
             /\ DOMAIN tasks' \subseteq DOMAIN tasks
             /\ \A j \in DOMAIN tasks' : tasks'[j] = tasks[j]]_vars

\* a cleanup has removed a job and has kept a job that had finished as well,
\* later than the removed one
C27_Witness ==
    /\ \E j \in 1..Len(hist) : j \notin DOMAIN tasks
    /\ \E j \in DOMAIN tasks : FinishedJob(j) /\ tasks[j].completed_at < now

\* C29: get_task_status returns None for every id that submit_task never
\* returned and the status dict of every job that is stored, and it changes
\* no job (nor anything else of the queue).
C29_StatusLookup ==
    [][\A task_id \in AskedIds :
          (jRet' # jRet /\ GetTaskStatusCall(task_id)) =>
             /\ task_id \notin 1..Len(hist) => jRet'[2] = NoStatus
             /\ task_id \in DOMAIN tasks =>
                   /\ jRet'[2].task_id = task_id
                   /\ jRet'[2].status = tasks[task_id].status
                   /\ jRet'[2].status = hist[task_id][Len(hist[task_id])]
                   /\ jRet'[2].result = tasks[task_id].result
                   /\ jRet'[2].error = tasks[task_id].error
                   /\ jRet'[2].created_at = tasks[task_id].created_at
                   /\ jRet'[2].started_at = tasks[task_id].started_at
                   /\ jRet'[2].completed_at = tasks[task_id].completed_at
             /\ qvars' = qvars]_vars

\* None was returned for an id never issued while jobs are stored
C29_Witness ==
    /\ jRet # <<>>
    /\ jRet[1] \notin 1..Len(hist)
    /\ jRet[2] = NoStatus
    /\ DOMAIN tasks # {}

\* the dict of a failed job was returned
C29_WitnessFound ==
    /\ jRet # <<>>
    /\ jRet[1] \in DOMAIN tasks
    /\ jRet[2] = GetTaskStatus(jRet[1])
    /\ jRet[2].status = FAILED

\* C30: when the pipeline of the asynchronous parse endpoint ends with an
\* exception (parse_tasks raises, or a task creation cannot save), the job
\* gets the status failed with the failure in its error field, and it is
\* never recorded as completed.
C30_PipelineFailureFails ==
    [][\A w \in WorkerIds, parsed \in ParsedResults, save_ok \in BOOLEAN :
          (PipelineException(parsed, save_ok)
             /\ OpFinish(w, ProcessTaskParsing(parsed, save_ok))) =>
                /\ tasks'[wtask[w].job].status = FAILED
                /\ tasks'[wtask[w].job].error # "None"
                /\ COMPLETED \notin Range(hist'[wtask[w].job])]_vars

\* the answers after which the wrapper may try again
Retryable(answer) ==
    \/ answer.kind \in {"timeout", "connect_error"}
    \/ answer.kind = "status" /\ (answer.code = 429 \/ answer.code >= 500)

\* C31: _make_api_request_with_retry makes at most max_retries requests and
\* has returned or raised after the last one; every request but the last
\* one was answered by 429, a 5xx status, a timeout or a connection error;
\* the wait after the i-th request answered by 429 is retry_delay * 2^(i-1)
\* (attempts count from 0); any other status that is not 200 ends the call
\* by raising, without a further request.
C31_BoundedRetry ==
    /\ Len(xReqs) <= max_retries
    /\ Len(xReqs) = max_retries => xPc \in {"returned", "raised"}
    /\ xPc = "returned" => Returns(xReqs[Len(xReqs)])
    /\ Len(xSleeps) = Len(xReqs) - (IF xPc \in {"returned", "raised"} THEN 1 ELSE 0)
    /\ \A i \in 1..Len(xSleeps) :
          /\ Retryable(xReqs[i])
          /\ xReqs[i].code = 429 => xSleeps[i] = retry_delay * 2 ^ (i - 1)
    /\ \A i \in 1..Len(xReqs) :
          (xReqs[i].kind = "status" /\ xReqs[i].code # 200 /\ ~Retryable(xReqs[i])) =>
             i = Len(xReqs) /\ xPc = "raised"

\* the third request was made after two answers 429, with waits of 1 and 2
C31_Witness ==
    /\ Len(xReqs) = max_retries
    /\ xReqs[1].code = 429
    /\ xReqs[2].code = 429
    /\ xSleeps = <<retry_delay, 2 * retry_delay>>
    /\ xPc = "raised"

\* the fields a TaskUpdate can supply, and the fields update_task must keep
UpdatableFields == {"title", "start", "end", "priority", "reminder_type"}
KeptFields == {"id", "created_at", "reminder_sent", "recurrence_rule", "is_recurring",
               "parent_task_id"}

\* the field is supplied by the request (it is not None)
Supplied(up, f) == up[f] # (IF f \in {"start", "end"} THEN NoTime ELSE "None")

\* what update_task(task_id, up, u) does to the tasks: with the id among the
\* tasks of u, the supplied fields and updated_at of that task change and
\* nothing else does; without it, None is returned and the file and the
\* user, query and analysis caches stay
UpdateFrame(u, task_id, up) ==
    LET before == TasksOf(file, u)
        after == TasksOf(file, u)'
        i == FirstIndex(before, task_id)
    IN /\ \A u2 \in Users \ {u} : TasksOf(file, u2)' = TasksOf(file, u2)
       /\ IF i = 0
          THEN /\ last' = "unsaved"
               /\ file' = file
               /\ ucache' = ucache
               /\ qcache' = qcache
               /\ acache' = acache
          ELSE /\ Len(after) = Len(before)
               /\ \A j \in 1..Len(before) : j # i => after[j] = before[j]
               /\ \A f \in UpdatableFields :
                     after[i][f] = IF Supplied(up, f) THEN up[f] ELSE before[i][f]
               /\ after[i].is_important =
                     IF up.is_important # <<>> THEN up.is_important[1]
                     ELSE before[i].is_important
               /\ after[i].updated_at = now
               /\ \A f \in KeptFields : after[i][f] = before[i][f]

C32_WitnessNotFound ==
    /\ last = "unsaved"
    /\ fdc.set /\ fdc.ts = now /\ fdc.data = file
    /\ TasksOf(file, "u1") # <<>>

C34_FieldsMatchStatus ==
    \A j \in DOMAIN tasks :
        /\ (tasks[j].completed_at # NoTime) <=> (tasks[j].status \in {COMPLETED, FAILED})
        /\ (tasks[j].started_at # NoTime) <=> (tasks[j].status # PENDING)
        /\ tasks[j].result # "None" => tasks[j].status = COMPLETED
        /\ tasks[j].error # "None" => tasks[j].status = FAILED

\* a create_task, update_task or delete_task of the user whose write fails
FailedWrite(u) ==
    \/ \E c \in ICreates : CreateTask(u, c, FALSE)
    \/ \E id \in TaskIds, up \in IUpdates : UpdateTask(u, id, up, FALSE)
    \/ \E id \in TaskIds : DeleteTask(u, id, FALSE)

\* C35: when the write of the data file fails inside create_task,
\* update_task or delete_task, what get_task_by_id and get_all_tasks return
\* on the same TaskService is the same after the failed call as before it,
\* for every user and id.
C35_FailedWriteInvisible ==
    [][\A u \in Users :
          (saved' = "failed" /\ FailedWrite(u)) =>
             \A u2 \in Users :
                /\ GetAll(qcache, u2).val' = GetAll(qcache, u2).val
                /\ \A id \in TaskIds : GetById(u2, id)' = GetById(u2, id)]_vars

\* the ids of the tasks in the data file
StoredIds == {t.id : t \in UNION {Range(file.tasks[u]) : u \in Users}}

\* the stored tasks that were created through the first instance
ViaFirst == StoredIds \ via2

\* C36: with two TaskService objects on one data file, a stored task that
\* was created through one of them is still stored after a successful
\* create, update or delete of another task through the other one.
C36_NoLostWrite ==
    [][/\ \A u \in SUsers, c \in ICreates :
            /\ CreateTask(u, c, TRUE) => StoredIds \cap via2 \subseteq StoredIds'
            /\ CreateTask2(u, c) => ViaFirst \subseteq StoredIds'
       /\ \A u \in SUsers, id \in TaskIds :
            /\ (DeleteTask(u, id, TRUE) \/ \E up \in IUpdates : UpdateTask(u, id, up, TRUE)) =>
                  (StoredIds \cap via2) \ {id} \subseteq StoredIds'
            /\ (DeleteTask2(u, id) \/ \E up \in IUpdates : UpdateTask2(u, id, up)) =>
                  ViaFirst \ {id} \subseteq StoredIds']_vars

\* C37: under every interleaving of verify_supabase_token calls, each of
\* which may be suspended on the provider request between its cache check
\* and its cache insert, the credential cache never holds more than
\* MAX_CACHE_SIZE + 1 entries.
C37_CacheSizeBound == Len(token_cache) <= MaxCacheSize + 1


(***************************************************************************)
(* The asynchronous parse endpoint and its status endpoint, called by two  *)
(* authenticated users.                                                    *)
(***************************************************************************)
\* the response of the status endpoint for an unknown job
NotFound == [status_code |-> 404]

\* get_async_task_status, lines 128-135: 404 for None, else the dict itself
StatusResponse(status_info) ==
    IF status_info = NoStatus THEN NotFound ELSE status_info

\* POST /tasks/parse/async by user_id: submit_task(_process_task_parsing,
\* request.text, user_id)
ParseTasksAsync(user_id) ==
    /\ Len(hist) < MaxJobs
    /\ tasks' = [j \in DOMAIN tasks \cup {FreshJobId} |->
                    IF j = FreshJobId THEN AsyncTask("async") ELSE tasks[j]]
    /\ putq' = Append(putq, FreshJobId)
    /\ hist' = Append(hist, <<PENDING>>)
    /\ claimedBy' = Append(claimedBy, {})
    /\ jArgs' = Append(jArgs, user_id)
    /\ UNCHANGED <<running, queue, running_tasks, workers, wtask, stopPc,
                   gathered, atStop, raisedIn>>
    /\ UNCHANGED <<rvars, kvars, svars, tvars, pvars, jvars, xvars, ivars>>

\* GET /tasks/async/{task_id}/status by user_id
GetAsyncTaskStatus(task_id, user_id) ==
    /\ jRet' = <<user_id, task_id, StatusResponse(GetTaskStatus(task_id))>>
    /\ UNCHANGED nonj

EndpointNext ==
    \/ Start
    \/ \E user_id \in Users : ParseTasksAsync(user_id)
    \/ QueuePut
    \/ \E w \in WorkerIds : WorkerBegin(w)
    \/ \E w \in WorkerIds : WorkerGet(w, CHOOSE o \in Outcomes : TRUE)
    \/ \E w \in WorkerIds, parsed \in ParsedResults, save_ok \in BOOLEAN :
          OpFinish(w, ProcessTaskParsing(parsed, save_ok))
    \/ \E task_id \in AskedIds, user_id \in Users : GetAsyncTaskStatus(task_id, user_id)

SpecEndpoint == Init /\ [][EndpointNext]_vars

(***************************************************************************)
(* The queue that is stopped and started again: stop() is called only      *)
(* while a later start() is still possible, so that the last start() is    *)
(* followed by no stop(); fairness of the event loop as in LiveSpec.       *)
(***************************************************************************)
StopBeforeRestart ==
    /\ Len(wtask) + max_concurrent_tasks <= MaxWorkerTasks
    /\ Stop

RestartNext ==
    \/ Start
    \/ StopBeforeRestart
    \/ StopReturn
    \/ \E k \in OpKinds : SubmitTask(k)
    \/ QueuePut
    \/ \E w \in WorkerIds : WorkerBegin(w)
    \/ \E w \in WorkerIds : WorkerCancelled(w)
    \/ \E w \in WorkerIds, out \in Outcomes : WorkerGet(w, out)
    \/ \E w \in WorkerIds, out \in Outcomes : OpFinish(w, out)
    \/ \E w \in WorkerIds : OpCancelled(w)

SpecRestart ==
    /\ Init
    /\ [][RestartNext]_vars
    /\ WF_vars(QueuePut)
    /\ \A w \in WorkerIds :
          /\ WF_vars(WorkerBegin(w))
          /\ WF_vars(\E out \in Outcomes : WorkerGet(w, out))
          /\ WF_vars(\E out \in Outcomes : OpFinish(w, out))

IsPending(j) == j \in DOMAIN tasks /\ tasks[j].status = PENDING

\* the job waits for a worker: its put is scheduled or it is in the queue
Queued(j) ==
    \/ \E i \in 1..Len(putq) : putq[i] = j
    \/ \E i \in 1..Len(queue) : queue[i] = j

\* stop() has been called after a start() and no start() since
Stopped == ~running /\ Len(wtask) > 0

\* C38 (safety part): a job that is pending when stop() is called, and as
\* long as the queue stays stopped, remains in the table with status pending
\* and remains queued.
C38_PendingKept ==
    [][\A j \in JobIds :
          (IsPending(j) /\ Stopped')
              => (IsPending(j)' /\ Queued(j)')]_vars

\* C38 (liveness part, under SpecRestart): a job that is pending while the
\* queue is stopped is processed to completed or failed once start() has
\* been called again.
C38_PendingSurvivesStop ==
    \A j \in JobIds :
        [](IsPending(j) /\ Stopped => [](running => <>Finished(j)))

\* C39: every slot the recommender returns starts at or after the current
\* time: no slot of today whose start hour has already passed is returned.
C39_NoPastSlot ==
    kPc = "done" => \A k \in 1..Len(kOut) : kOut[k].start >= kNow

\* C40: the status and the result of an asynchronous parse job are given by
\* the status endpoint to the user who submitted the job only: a request of
\* another user for that job is answered like one for an unknown job.
C40_OwnJobsOnly ==
    [][\A task_id \in AskedIds, user_id \in Users :
          (task_id \in DOMAIN tasks /\ jArgs[task_id] # user_id
             /\ GetAsyncTaskStatus(task_id, user_id))
              => jRet'[3] = NotFound]_vars
====
